---- MODULE Spec2Model ----
(***************************************************************************)
(* ForenChain: case-scoped two-factor login, case access control and the   *)
(* audit ledger, as implemented by the backend routes, middleware and      *)
(* models.  Time is the wall clock in seconds.                             *)
(***************************************************************************)
EXTENDS Integers, Sequences, FiniteSets, TLC

(* ------------------------------------------------------------------ *)
(* Bounds of the model                                                  *)
(* ------------------------------------------------------------------ *)
MaxTime == 2400
MaxOtpTime == 700
MaxCount == 6
MaxTokens == 2
MaxEvidence == 1
MaxOtpTokens == 1
MaxLogins == 6
MaxResendTime == 200
MaxAudit == 4
MaxVisible == 4
MaxDenials == 1
MaxLedgerTime == 2
MaxTimeline == 3

(* ------------------------------------------------------------------ *)
(* Program constants                                                    *)
(* ------------------------------------------------------------------ *)
OtpTtl == 600
OtpMaxAttempts == 3
EnhancedOtpTtl == 300
LockThreshold == 5
LockDuration == 1800
ResendCooldown == 60
SessionTtl == 28800
JwtTtl == 28800
MaxSessions == 5
RateWindow == 900
RateMax == 10
NoDate == -1
EnhancedOtpMaxAttempts == 3
OtpStoreMaxAttempts == 3
EnhancedSessionTtl == 1800
MaxAlerts == 50

(* ------------------------------------------------------------------ *)
(* The seeded store                                                     *)
(* ------------------------------------------------------------------ *)
Users == {"admin", "bob", "eve"}
CaseIds == {"CASE-A", "CASE-B"}
NoCase == "CASE-X"
OtpCodes == {"111111", "222222"}
Ips == {"ip1"}
EvidenceIds == {"EV-1"}
Procs == {"p1", "p2"}
FileHashes == {"h1", "h2"}

AccessLevelEnum == {"read", "write", "admin"}
NoOtp == [code |-> "", expiresAt |-> NoDate, attempts |-> 0, lastSentAt |-> NoDate]
NoToken == [userId |-> "", role |-> "", caseId |-> "", exp |-> NoDate]
NoOtpData == [userId |-> "", otp |-> "", sentAt |-> NoDate, attempts |-> 0, present |-> FALSE]
NoResp == [op |-> "none", status |-> 0, kind |-> "none", user |-> "", caseId |-> "",
           tokenCase |-> "", stage |-> "none", data |-> FALSE]

VARIABLES
    now,              \* wall clock, seconds
    role,             \* user -> role
    isActive,         \* user -> BOOLEAN
    kycVerified,      \* user -> BOOLEAN (kyc.isVerified)
    associatedCaseIds,\* user -> Seq([caseId, accessLevel])
    otp,              \* user -> otp record (NoOtp when cleared)
    loginAttempts,    \* user -> [count, lockedUntil]
    sessions,         \* user -> Seq([token, caseId, expiresAt, isActive])
    cases,            \* caseId -> [status, isActive, evidenceCount, timeline, assignedUsers]
    auditLog,         \* Seq of stored audit entries
    rateLimit,        \* ip -> Seq(timestamps)  (the loginAttempts Map of the auth routes)
    issuedJwts,       \* set of signed JWT payloads
    nextToken,        \* next fresh session token
    resp,             \* the last HTTP response
    otpOrigin,        \* history: user -> case named by the login-step1 the pending code stems from
    otpStore,         \* the otpStore Map of the enhanced login: token -> [userId, otp, sentAt, attempts, present]
    userEnhanced,     \* user -> the UserEnhanced document
    failRun,          \* history: user -> length of the current run of failed login-step1 submissions
    granted,          \* history: set of <<user, caseId, level>> saved by assign-user
    evidenceDocs,     \* the Evidence collection of routes/evidence.js:
                      \* Seq([hash, caseNumber, uploadedBy, currentOwner, status])
    evidenceEnhanced, \* evidenceId -> the EvidenceEnhanced document of the workflow routes
    inflight,         \* workflow request in progress -> its position and loaded document
    uploads           \* history: Seq([caseId, fileHash]) of the files the case-scoped upload took in

vars == <<now, role, isActive, kycVerified, associatedCaseIds, otp, loginAttempts,
          sessions, cases, auditLog, rateLimit, issuedJwts, nextToken, resp,
          otpStore, userEnhanced, otpOrigin, failRun, granted,
          evidenceDocs, evidenceEnhanced, inflight, uploads>>

userVars == <<role, isActive, kycVerified>>
enhancedVars == <<otpStore, userEnhanced>>
evidenceVars == <<evidenceDocs, evidenceEnhanced, inflight, uploads>>

(* ------------------------------------------------------------------ *)
(* models/AuditLog.js: schema validation of AuditLog.create            *)
(* ------------------------------------------------------------------ *)
AuditActionEnum == {"upload", "view", "verify", "transfer", "modify", "download", "close", "reopen"}

Missing == "missing"

\* A document as handed to AuditLog.create: fields the schema does not know
\* (userId, caseId) are dropped, required ones must be present.
AuditDoc(action, evidenceId, performedBy, userId, caseId) ==
    [action |-> action, evidenceId |-> evidenceId, performedBy |-> performedBy,
     userId |-> userId, caseId |-> caseId, timestamp |-> now]

AuditValid(doc) ==
    /\ doc.evidenceId # Missing
    /\ doc.performedBy # Missing
    /\ doc.action \in AuditActionEnum

AuditCreateOverwrites(log, doc) ==
    IF AuditValid(doc)
    THEN IF log = << >> THEN <<doc>> ELSE [log EXCEPT ![Len(log)] = doc]
    ELSE log

\* AuditLog.create: the stored collection afterwards (unchanged when validation rejects)
AuditCreate(log, doc) ==
    IF AuditValid(doc) THEN Append(log, doc) ELSE log

(* ------------------------------------------------------------------ *)
(* models/UserWithCaseAccess.js: methods                                *)
(* ------------------------------------------------------------------ *)
SomeGrant(grants, caseId) ==
    \E i \in DOMAIN grants : grants[i].caseId = caseId

\* hasAccessToCase as a method of a user document (its role and grant list)
hasAccessToCaseFirstOnly(r, grants, caseId) ==
    IF r = "admin" THEN TRUE
    ELSE Len(grants) > 0 /\ grants[1].caseId = caseId

hasAccessToCaseDoc(r, grants, caseId) ==
    IF r = "admin" THEN TRUE
    ELSE SomeGrant(grants, caseId)

hasAccessToCase(u, caseId) ==
    hasAccessToCaseDoc(role[u], associatedCaseIds[u], caseId)

FirstGrant(grants, caseId) ==
    LET idx == {i \in DOMAIN grants : grants[i].caseId = caseId}
    IN  grants[CHOOSE i \in idx : \A j \in idx : i <= j]

getCaseAccessLevel(u, caseId) ==
    IF role[u] = "admin" THEN "admin"
    ELSE IF SomeGrant(associatedCaseIds[u], caseId)
         THEN FirstGrant(associatedCaseIds[u], caseId).accessLevel
         ELSE "null"

generateOTPFiveMinutes(code, t) ==
    [code |-> code, expiresAt |-> t + EnhancedOtpTtl, attempts |-> 0, lastSentAt |-> t]

generateOTP(code, t) ==
    [code |-> code, expiresAt |-> t + OtpTtl, attempts |-> 0, lastSentAt |-> t]

verifyOTPKeepsCode(o, code, t) ==
    IF o.code = "" THEN [success |-> FALSE, message |-> "No OTP generated", otp |-> o]
    ELSE IF o.expiresAt < t THEN [success |-> FALSE, message |-> "OTP expired", otp |-> o]
    ELSE IF o.attempts >= OtpMaxAttempts
         THEN [success |-> FALSE, message |-> "Too many attempts", otp |-> o]
    ELSE IF o.code = code
         THEN [success |-> TRUE, message |-> "OTP verified",
               otp |-> [o EXCEPT !.attempts = o.attempts + 1]]
    ELSE [success |-> FALSE, message |-> "Invalid OTP",
          otp |-> [o EXCEPT !.attempts = o.attempts + 1]]

\* verifyOTP: the result and the otp record it leaves on the document
verifyOTP(o, code, t) ==
    IF o.code = "" THEN [success |-> FALSE, message |-> "No OTP generated", otp |-> o]
    ELSE IF o.expiresAt < t THEN [success |-> FALSE, message |-> "OTP expired", otp |-> o]
    ELSE IF o.attempts >= OtpMaxAttempts
         THEN [success |-> FALSE, message |-> "Too many attempts", otp |-> o]
    ELSE IF o.code = code
         THEN [success |-> TRUE, message |-> "OTP verified", otp |-> NoOtp]
    ELSE [success |-> FALSE, message |-> "Invalid OTP",
          otp |-> [o EXCEPT !.attempts = o.attempts + 1]]

isLockedNever(la, t) == FALSE

isLocked(la, t) ==
    la.lockedUntil # NoDate /\ la.lockedUntil > t

incrementLoginAttemptsEarly(la, t) ==
    LET c == la.count + 1
    IN  [count |-> c,
         lockedUntil |-> IF c >= LockThreshold - 1 THEN t + LockDuration ELSE la.lockedUntil]

incrementLoginAttemptsTwice(la, t) ==
    LET c == la.count + 2
    IN  [count |-> c,
         lockedUntil |-> IF c >= LockThreshold THEN t + LockDuration ELSE la.lockedUntil]

incrementLoginAttempts(la, t) ==
    LET c == la.count + 1
    IN  [count |-> c,
         lockedUntil |-> IF c >= LockThreshold THEN t + LockDuration ELSE la.lockedUntil]

resetLoginAttemptsCountOnly ==
    [count |-> 0, lockedUntil |-> 0]

resetLoginAttempts ==
    [count |-> 0, lockedUntil |-> NoDate]

\* invalidateSession: the first session with that token is marked inactive
invalidateSession(ss, token) ==
    LET idx == {i \in DOMAIN ss : ss[i].token = token} IN
    IF idx = {} THEN ss
    ELSE [ss EXCEPT ![CHOOSE i \in idx : \A j \in idx : i <= j].isActive = FALSE]

\* createSession: push, then keep only the last 5
LastN(s, n) ==
    IF Len(s) > n THEN SubSeq(s, Len(s) - n + 1, Len(s)) ELSE s

createSession(ss, token, caseId, t) ==
    LastN(Append(ss, [token |-> token, caseId |-> caseId,
                      expiresAt |-> t + SessionTtl, isActive |-> TRUE]),
          MaxSessions)

(* ------------------------------------------------------------------ *)
(* models/Case.js                                                       *)
(* ------------------------------------------------------------------ *)
CaseActive(caseId) ==
    caseId \in CaseIds /\ cases[caseId].isActive

(* ------------------------------------------------------------------ *)
(* routes/authWithCaseId.js                                             *)
(* ------------------------------------------------------------------ *)
Recent(ts, t) ==
    SelectSeq(ts, LAMBDA x : t - x < RateWindow)

\* An HTTP response, with the request it answers: the operator and case named by the
\* request, the case bound into the presented token, the middleware or handler that
\* sent it, and whether evidence data is in the body.
Response(op, status, kind, u, caseId, tokenCase) ==
    [op |-> op, status |-> status, kind |-> kind, user |-> u, caseId |-> caseId,
     tokenCase |-> tokenCase, stage |-> "handler", data |-> FALSE]

\* logAction of the auth routes: AuditLog.create inside try/catch
AuthLog(u, action, caseId) ==
    AuditCreate(auditLog, AuditDoc(action, Missing, Missing, u, caseId))

\* The UserEnhanced collection after seeding
SeededEnhanced ==
    [u \in Users |->
        [role |-> IF u = "admin" THEN "admin" ELSE "citizen",
         kycStatus |-> IF u = "eve" THEN "pending" ELSE "verified",
         isBlocked |-> FALSE, otpAttempts |-> 0, lastOtpSentAt |-> NoDate,
         sessions |-> << >>, loginHistory |-> 0, securityAlerts |-> 0]]

\* An EvidenceEnhanced document as the schema defaults leave it after an upload
NewEvidence ==
    [status |-> "uploaded", verifiedAt |-> NoDate, verifiedBy |-> "",
     approvedAt |-> NoDate, approvedBy |-> "", rejectedAt |-> NoDate, rejectedBy |-> "",
     closedAt |-> NoDate, closedBy |-> "", assignedTo |-> "", assignedAt |-> NoDate,
     analysisStatus |-> "not_assigned", completedAt |-> NoDate, visibleTo |-> << >>]

\* No workflow request in progress
Idle ==
    [pc |-> "idle", op |-> "", actor |-> "", evidenceId |-> "", status |-> 0, kind |-> "",
     snap |-> NewEvidence, doc |-> NewEvidence, audit |-> ""]

\* The store after seeding; bobGrants is the grant list assign-user has saved for bob,
\* enhanced the UserEnhanced collection
\* eveActive, eveKyc: whether eve's account is active and her KYC is verified
InitStoreFull(bobGrants, enhanced, eveActive, eveKyc) ==
    /\ now = 0
    /\ role = [u \in Users |-> IF u = "admin" THEN "admin" ELSE "citizen"]
    /\ isActive = [u \in Users |-> IF u = "eve" THEN eveActive ELSE TRUE]
    /\ kycVerified = [u \in Users |-> IF u = "eve" THEN eveKyc ELSE TRUE]
    /\ associatedCaseIds = [u \in Users |-> IF u = "bob" THEN bobGrants ELSE << >>]
    /\ otp = [u \in Users |-> NoOtp]
    /\ loginAttempts = [u \in Users |-> [count |-> 0, lockedUntil |-> NoDate]]
    /\ sessions = [u \in Users |-> << >>]
    /\ cases = [c \in CaseIds |->
                  [status |-> "active", isActive |-> TRUE, evidenceCount |-> 0,
                   timeline |-> Cardinality({i \in DOMAIN bobGrants : bobGrants[i].caseId = c}),
                   assignedUsers |-> IF SomeGrant(bobGrants, c) THEN {"bob"} ELSE {}]]
    /\ auditLog = << >>
    /\ rateLimit = [ip \in Ips |-> << >>]
    /\ issuedJwts = {}
    /\ nextToken = 1
    /\ resp = NoResp
    /\ otpStore = << >>
    /\ userEnhanced = enhanced
    /\ otpOrigin = [u \in Users |-> ""]
    /\ failRun = [u \in Users |-> 0]
    /\ granted = {<<"bob", bobGrants[i].caseId, bobGrants[i].accessLevel>> : i \in DOMAIN bobGrants}
    /\ evidenceDocs = << >>
    /\ evidenceEnhanced = [e \in EvidenceIds |-> NewEvidence]
    /\ inflight = [p \in Procs |-> Idle]
    /\ uploads = << >>

\* eve is inactive and her KYC is pending
InitStoreWith(bobGrants, enhanced) == InitStoreFull(bobGrants, enhanced, FALSE, FALSE)

InitStore(bobGrants) == InitStoreWith(bobGrants, SeededEnhanced)

Init == InitStore(<< >>)

\* bob has been assigned to CASE-A with the default access level
InitGranted == InitStore(<<[caseId |-> "CASE-A", accessLevel |-> "read"]>>)

\* as InitGranted, with eve's account in any combination of active and KYC verified
InitOrder ==
    \E eveActive \in BOOLEAN, eveKyc \in BOOLEAN :
        InitStoreFull(<<[caseId |-> "CASE-A", accessLevel |-> "read"]>>, SeededEnhanced,
                      eveActive, eveKyc)

(* The clock.  Every comparison the code makes against the clock is against *)
(* one of the instants below, so the clock is advanced to one second       *)
(* before, exactly to, or one second after such an instant.                *)
OtpExpiries ==
    {otp[u].expiresAt : u \in {x \in Users : otp[x].code # ""}}

LockExpiries ==
    {loginAttempts[u].lockedUntil : u \in {x \in Users : loginAttempts[x].lockedUntil # NoDate}}

\* five minutes after a code was sent: the window of UserEnhanced.verifyOTP
FiveMinuteInstants ==
    {otp[u].lastSentAt + EnhancedOtpTtl : u \in {x \in Users : otp[x].code # ""}}
    \cup {otpStore[k].sentAt + EnhancedOtpTtl : k \in {j \in DOMAIN otpStore : otpStore[j].present}}

\* the end of the resend cooldown of each code that was sent
ResendInstants ==
    {otp[u].lastSentAt + ResendCooldown : u \in {x \in Users : otp[x].lastSentAt # NoDate}}

Advance(instants, horizon) ==
    \E D \in instants : \E e \in {-1, 0, 1} :
        /\ D + e > now
        /\ D + e <= horizon
        /\ now' = D + e
        /\ UNCHANGED <<evidenceVars, role, isActive, kycVerified, associatedCaseIds, otp, loginAttempts,
                       sessions, cases, auditLog, rateLimit, issuedJwts, nextToken, resp,
                       otpStore, userEnhanced, otpOrigin, failRun, granted>>

(* POST /api/auth/login-step1 *)
LoginStep1(username, passwordOk, caseId, ip, code) ==
    LET u == username
        recent == Recent(rateLimit[ip], now)
        rl == [rateLimit EXCEPT ![ip] = Append(recent, now)]
        R(status, kind) == Response("login-step1", status, kind, u, caseId, "")
        la == incrementLoginAttempts(loginAttempts[u], now)
    IN
    IF caseId = "" THEN
        /\ resp' = R(400, "Username, password, and Case ID are required")
        /\ UNCHANGED <<evidenceVars, enhancedVars, now, userVars, associatedCaseIds, otp, loginAttempts, sessions, cases,
                       auditLog, rateLimit, issuedJwts, nextToken, otpOrigin, failRun, granted>>
    ELSE IF Len(recent) >= RateMax THEN
        /\ resp' = R(429, "Too many login attempts")
        /\ UNCHANGED <<evidenceVars, enhancedVars, now, userVars, associatedCaseIds, otp, loginAttempts, sessions, cases,
                       auditLog, rateLimit, issuedJwts, nextToken, otpOrigin, failRun, granted>>
    ELSE IF u \notin Users THEN
        /\ rateLimit' = rl
        /\ resp' = R(401, "Invalid credentials")
        /\ UNCHANGED <<evidenceVars, enhancedVars, now, userVars, associatedCaseIds, otp, loginAttempts, sessions, cases,
                       auditLog, issuedJwts, nextToken, otpOrigin, failRun, granted>>
    ELSE IF isLocked(loginAttempts[u], now) THEN
        /\ rateLimit' = rl
        /\ resp' = R(423, "Account locked")
        /\ UNCHANGED <<evidenceVars, enhancedVars, now, userVars, associatedCaseIds, otp, loginAttempts, sessions, cases,
                       auditLog, issuedJwts, nextToken, otpOrigin, failRun, granted>>
    ELSE IF ~isActive[u] THEN
        /\ rateLimit' = rl
        /\ resp' = R(403, "Account is not active")
        /\ UNCHANGED <<evidenceVars, enhancedVars, now, userVars, associatedCaseIds, otp, loginAttempts, sessions, cases,
                       auditLog, issuedJwts, nextToken, otpOrigin, failRun, granted>>
    ELSE IF ~kycVerified[u] THEN
        /\ rateLimit' = rl
        /\ resp' = R(403, "KYC verification pending")
        /\ UNCHANGED <<evidenceVars, enhancedVars, now, userVars, associatedCaseIds, otp, loginAttempts, sessions, cases,
                       auditLog, issuedJwts, nextToken, otpOrigin, failRun, granted>>
    ELSE IF ~passwordOk THEN
        /\ loginAttempts[u].count < MaxCount
        /\ rateLimit' = rl
        /\ loginAttempts' = [loginAttempts EXCEPT ![u] = la]
        /\ auditLog' = AuthLog(u, "login_failed", Missing)
        /\ failRun' = [failRun EXCEPT ![u] = @ + 1]
        /\ resp' = R(401, "Invalid credentials")
        /\ UNCHANGED <<evidenceVars, enhancedVars, now, userVars, associatedCaseIds, otp, sessions, cases,
                       issuedJwts, nextToken, otpOrigin, granted>>
    ELSE IF ~CaseActive(caseId) THEN
        /\ loginAttempts[u].count < MaxCount
        /\ rateLimit' = rl
        /\ loginAttempts' = [loginAttempts EXCEPT ![u] = la]
        /\ auditLog' = AuthLog(u, "login_failed", Missing)
        /\ failRun' = [failRun EXCEPT ![u] = @ + 1]
        /\ resp' = R(404, "Case ID not found or inactive")
        /\ UNCHANGED <<evidenceVars, enhancedVars, now, userVars, associatedCaseIds, otp, sessions, cases,
                       issuedJwts, nextToken, otpOrigin, granted>>
    ELSE IF ~hasAccessToCase(u, caseId) THEN
        /\ loginAttempts[u].count < MaxCount
        /\ rateLimit' = rl
        /\ loginAttempts' = [loginAttempts EXCEPT ![u] = la]
        /\ auditLog' = AuthLog(u, "unauthorized_case_access", Missing)
        /\ failRun' = [failRun EXCEPT ![u] = @ + 1]
        /\ resp' = R(403, "You do not have access to this case")
        /\ UNCHANGED <<evidenceVars, enhancedVars, now, userVars, associatedCaseIds, otp, sessions, cases,
                       issuedJwts, nextToken, otpOrigin, granted>>
    ELSE
        /\ otp' = [otp EXCEPT ![u] = generateOTP(code, now)]
        /\ rateLimit' = rl
        /\ auditLog' = AuthLog(u, "login_step1_success", caseId)
        /\ otpOrigin' = [otpOrigin EXCEPT ![u] = caseId]
        /\ failRun' = [failRun EXCEPT ![u] = 0]
        /\ resp' = R(200, "OTP sent")
        /\ UNCHANGED <<evidenceVars, enhancedVars, now, userVars, associatedCaseIds, loginAttempts, sessions, cases,
                       issuedJwts, nextToken, granted>>

\* The counted failure login-step1 answers with for the operator document it has
\* loaded, or status 0 when the request ends otherwise
CountedFailure(u, passwordOk, caseId, ip) ==
    LET F(status, kind, action) == [status |-> status, kind |-> kind, action |-> action]
    IN  IF \/ caseId = ""
           \/ Len(Recent(rateLimit[ip], now)) >= RateMax
           \/ u \notin Users
        THEN F(0, "", "")
        ELSE IF isLocked(loginAttempts[u], now) \/ ~isActive[u] \/ ~kycVerified[u]
        THEN F(0, "", "")
        ELSE IF ~passwordOk THEN F(401, "Invalid credentials", "login_failed")
        ELSE IF ~CaseActive(caseId)
        THEN F(404, "Case ID not found or inactive", "login_failed")
        ELSE IF ~hasAccessToCase(u, caseId)
        THEN F(403, "You do not have access to this case", "unauthorized_case_access")
        ELSE F(0, "", "")

\* user.save() after incrementLoginAttempts: the paths modified on the loaded document
\* are written over the stored ones
SaveLoginAttempts(stored, snap, la) ==
    [count |-> la.count,
     lockedUntil |-> IF la.lockedUntil # snap.lockedUntil THEN la.lockedUntil
                     ELSE stored.lockedUntil]

\* login-step1 as the steps other requests can run between: up to findOne and the
\* checks on the loaded operator; then incrementLoginAttempts with its save, the audit
\* entry and the response. A request that does not end in a counted failure is
\* handled in one step.
Step1Begin(p, username, passwordOk, caseId, ip, code) ==
    LET f == CountedFailure(username, passwordOk, caseId, ip) IN
    /\ inflight[p].pc = "idle"
    /\ IF f.status = 0
       THEN LoginStep1(username, passwordOk, caseId, ip, code)
       ELSE /\ rateLimit' = [rateLimit EXCEPT ![ip] = Append(Recent(@, now), now)]
            /\ inflight' = [inflight EXCEPT ![p] =
                              [pc |-> "loaded", op |-> "login-step1", user |-> username,
                               caseId |-> caseId, status |-> f.status, kind |-> f.kind,
                               action |-> f.action, snap |-> loginAttempts[username]]]
            /\ UNCHANGED <<now, userVars, enhancedVars, associatedCaseIds, otp,
                           loginAttempts, sessions, cases, auditLog, issuedJwts, nextToken,
                           resp, otpOrigin, failRun, granted, evidenceDocs,
                           evidenceEnhanced, uploads>>

Step1Finish(p) ==
    LET q == inflight[p]
        u == q.user
    IN
    /\ q.pc = "loaded"
    /\ q.op = "login-step1"
    /\ loginAttempts' = [loginAttempts EXCEPT ![u] =
                            SaveLoginAttempts(@, q.snap, incrementLoginAttempts(q.snap, now))]
    /\ auditLog' = AuthLog(u, q.action, Missing)
    /\ failRun' = [failRun EXCEPT ![u] = @ + 1]
    /\ resp' = Response("login-step1", q.status, q.kind, u, q.caseId, "")
    /\ inflight' = [inflight EXCEPT ![p] = Idle]
    /\ UNCHANGED <<now, userVars, enhancedVars, associatedCaseIds, otp, sessions, cases,
                   rateLimit, issuedJwts, nextToken, otpOrigin, granted, evidenceDocs,
                   evidenceEnhanced, uploads>>

(* POST /api/auth/login-step2 *)
JwtSign(u, caseId, t) ==
    [userId |-> u, role |-> role[u], caseId |-> caseId, exp |-> t + JwtTtl]

LoginStep2Within(userId, code, caseId, maxTokens) ==
    LET u == userId
        R(status, kind) == Response("login-step2", status, kind, u, caseId, "")
    IN
    IF caseId = "" THEN
        /\ resp' = R(400, "User ID, OTP, and Case ID are required")
        /\ UNCHANGED <<evidenceVars, enhancedVars, now, userVars, associatedCaseIds, otp, loginAttempts, sessions, cases,
                       auditLog, rateLimit, issuedJwts, nextToken, otpOrigin, failRun, granted>>
    ELSE IF u \notin Users THEN
        /\ resp' = R(404, "User not found")
        /\ UNCHANGED <<evidenceVars, enhancedVars, now, userVars, associatedCaseIds, otp, loginAttempts, sessions, cases,
                       auditLog, rateLimit, issuedJwts, nextToken, otpOrigin, failRun, granted>>
    ELSE
        LET v == verifyOTP(otp[u], code, now) IN
        IF ~v.success THEN
            /\ auditLog' = AuthLog(u, "otp_verification_failed", caseId)
            /\ otp' = [otp EXCEPT ![u] = v.otp]
            /\ resp' = R(401, v.message)
            /\ UNCHANGED <<evidenceVars, enhancedVars, now, userVars, associatedCaseIds, loginAttempts, sessions, cases,
                           rateLimit, issuedJwts, nextToken, otpOrigin, failRun, granted>>
        ELSE
            /\ nextToken <= maxTokens
            /\ otp' = [otp EXCEPT ![u] = v.otp]
            /\ loginAttempts' = [loginAttempts EXCEPT ![u] = resetLoginAttempts]
            /\ sessions' = [sessions EXCEPT ![u] = createSession(@, nextToken, caseId, now)]
            /\ nextToken' = nextToken + 1
            /\ issuedJwts' = issuedJwts \cup {JwtSign(u, caseId, now)}
            /\ auditLog' = AuthLog(u, "login_success", caseId)
            /\ otpOrigin' = [otpOrigin EXCEPT ![u] = ""]
            /\ failRun' = [failRun EXCEPT ![u] = 0]
            /\ resp' = R(200, "Login successful")
            /\ UNCHANGED <<evidenceVars, enhancedVars, now, userVars, associatedCaseIds, cases, rateLimit, granted>>

LoginStep2(userId, code, caseId) ==
    LoginStep2Within(userId, code, caseId, MaxTokens)

\* user.save() after createSession. A session pushed onto the loaded array is appended
\* to the stored one ($push). When createSession has assigned the array anew (more
\* than 5 sessions), the array is written whole ($set) under the condition that the
\* document's version is the loaded one: every array write increments the version and
\* every session write changes the list, so the version is the loaded one exactly when
\* the stored list is the loaded list. Otherwise save() throws VersionError.
SaveSessionsLastWriteWins(stored, snap, local) ==
    [ok |-> TRUE, sessions |-> local]

SaveSessions(stored, snap, local) ==
    IF Len(local) = Len(snap) + 1 /\ SubSeq(local, 1, Len(snap)) = snap
    THEN [ok |-> TRUE, sessions |-> Append(stored, local[Len(local)])]
    ELSE IF stored = snap THEN [ok |-> TRUE, sessions |-> local]
    ELSE [ok |-> FALSE, sessions |-> stored]

\* login-step2 as the steps other requests can run between: findById and verifyOTP on
\* the loaded operator; resetLoginAttempts with its save; createSession with its save,
\* the token, the audit entry and the response. A request whose code is not accepted
\* is handled in one step.
Step2Begin(p, userId, code, caseId) ==
    /\ inflight[p].pc = "idle"
    /\ IF caseId = "" \/ userId \notin Users \/ ~verifyOTP(otp[userId], code, now).success
       THEN LoginStep2(userId, code, caseId)
       ELSE /\ inflight' = [inflight EXCEPT ![p] =
                              [pc |-> "verified", op |-> "login-step2", user |-> userId,
                               caseId |-> caseId, snap |-> sessions[userId]]]
            /\ UNCHANGED <<now, userVars, enhancedVars, associatedCaseIds, otp,
                           loginAttempts, sessions, cases, auditLog, rateLimit, issuedJwts,
                           nextToken, resp, otpOrigin, failRun, granted, evidenceDocs,
                           evidenceEnhanced, uploads>>

Step2Reset(p) ==
    LET q == inflight[p] IN
    /\ q.pc = "verified"
    /\ otp' = [otp EXCEPT ![q.user] = NoOtp]
    /\ loginAttempts' = [loginAttempts EXCEPT ![q.user] = resetLoginAttempts]
    /\ inflight' = [inflight EXCEPT ![p].pc = "reset"]
    /\ UNCHANGED <<now, userVars, enhancedVars, associatedCaseIds, sessions, cases,
                   auditLog, rateLimit, issuedJwts, nextToken, resp, otpOrigin, failRun,
                   granted, evidenceDocs, evidenceEnhanced, uploads>>

Step2Finish(p, maxTokens) ==
    LET q == inflight[p]
        u == q.user
        saved == SaveSessions(sessions[u], q.snap,
                              createSession(q.snap, nextToken, q.caseId, now))
    IN
    /\ q.pc = "reset"
    /\ nextToken <= maxTokens
    /\ inflight' = [inflight EXCEPT ![p] = Idle]
    /\ IF saved.ok
       THEN /\ sessions' = [sessions EXCEPT ![u] = saved.sessions]
            /\ nextToken' = nextToken + 1
            /\ issuedJwts' = issuedJwts \cup {JwtSign(u, q.caseId, now)}
            /\ auditLog' = AuthLog(u, "login_success", q.caseId)
            /\ otpOrigin' = [otpOrigin EXCEPT ![u] = ""]
            /\ failRun' = [failRun EXCEPT ![u] = 0]
            /\ resp' = Response("login-step2", 200, "Login successful", u, q.caseId, "")
       ELSE /\ resp' = Response("login-step2", 500, "Server error during OTP verification",
                                u, q.caseId, "")
            /\ UNCHANGED <<sessions, nextToken, issuedJwts, auditLog, otpOrigin, failRun>>
    /\ UNCHANGED <<now, userVars, enhancedVars, associatedCaseIds, otp, loginAttempts,
                   cases, rateLimit, granted, evidenceDocs, evidenceEnhanced, uploads>>

(* POST /api/auth/resend-otp *)
ResendOtp(userId, code) ==
    LET u == userId
        R(status, kind) == Response("resend-otp", status, kind, u, "", "")
    IN
    IF u \notin Users THEN
        /\ resp' = R(404, "User not found")
        /\ UNCHANGED <<evidenceVars, enhancedVars, now, userVars, associatedCaseIds, otp, loginAttempts, sessions, cases,
                       auditLog, rateLimit, issuedJwts, nextToken, otpOrigin, failRun, granted>>
    ELSE IF otp[u].lastSentAt # NoDate /\ now - otp[u].lastSentAt < ResendCooldown THEN
        /\ resp' = R(429, "Please wait before requesting another OTP")
        /\ UNCHANGED <<evidenceVars, enhancedVars, now, userVars, associatedCaseIds, otp, loginAttempts, sessions, cases,
                       auditLog, rateLimit, issuedJwts, nextToken, otpOrigin, failRun, granted>>
    ELSE
        /\ otp' = [otp EXCEPT ![u] = generateOTP(code, now)]
        /\ resp' = R(200, "OTP resent successfully")
        /\ UNCHANGED <<evidenceVars, enhancedVars, now, userVars, associatedCaseIds, loginAttempts, sessions, cases,
                       auditLog, rateLimit, issuedJwts, nextToken, otpOrigin, failRun, granted>>

(* POST /api/auth/logout *)
Logout(userId, sessionToken) ==
    /\ IF userId \in Users /\ sessionToken # 0
       THEN /\ sessions' = [sessions EXCEPT ![userId] = invalidateSession(@, sessionToken)]
            /\ auditLog' = AuthLog(userId, "logout", Missing)
       ELSE UNCHANGED <<evidenceVars, sessions, auditLog>>
    /\ resp' = Response("logout", 200, "Logged out successfully", userId, "", "")
    /\ UNCHANGED <<evidenceVars, enhancedVars, now, userVars, associatedCaseIds, otp, loginAttempts, cases,
                   rateLimit, issuedJwts, nextToken, otpOrigin, failRun, granted>>

(* ------------------------------------------------------------------ *)
(* models/UserEnhanced.js and the enhanced login (workflowRoutes.js)   *)
(* ------------------------------------------------------------------ *)
\* UserEnhanced verifyOTP(otp, storedOtp, sentAt): the result and the
\* twoFactorAuth.otpAttempts it leaves on the document
verifyOTPEnhanced(attempts, code, storedOtp, sentAt, t) ==
    IF t - sentAt > EnhancedOtpTtl
    THEN [valid |-> FALSE, reason |-> "OTP expired", otpAttempts |-> attempts]
    ELSE IF attempts >= EnhancedOtpMaxAttempts
         THEN [valid |-> FALSE, reason |-> "Too many attempts", otpAttempts |-> attempts]
    ELSE IF code = storedOtp
         THEN [valid |-> TRUE, reason |-> "", otpAttempts |-> 0]
    ELSE [valid |-> FALSE, reason |-> "Invalid OTP", otpAttempts |-> attempts + 1]

\* addSecurityAlert: push, keep only the last 50 (the number of alerts kept)
addSecurityAlert(n) ==
    IF n + 1 > MaxAlerts THEN MaxAlerts ELSE n + 1

portalRoleMap(portal) ==
    CASE portal = "citizen" -> "citizen"
      [] portal = "police" -> "police"
      [] portal = "forensic" -> "forensic_expert"
      [] portal = "court" -> "court_official"
      [] portal = "admin" -> "admin"
      [] OTHER -> "undefined"

(* POST /login of the enhanced flow *)
EnhancedLoginWithin(username, passwordOk, portal, code, maxOtpTokens) ==
    LET u == username
        R(status, kind) == Response("enhanced-login", status, kind, u, "", "")
    IN
    IF portal = "" THEN
        /\ resp' = R(400, "Username, password, and portal are required")
        /\ UNCHANGED <<evidenceVars, enhancedVars, now, userVars, associatedCaseIds, otp, loginAttempts, sessions,
                       cases, auditLog, rateLimit, issuedJwts, nextToken, otpOrigin, failRun, granted>>
    ELSE IF u \notin Users THEN
        /\ resp' = R(401, "Invalid credentials")
        /\ UNCHANGED <<evidenceVars, enhancedVars, now, userVars, associatedCaseIds, otp, loginAttempts, sessions,
                       cases, auditLog, rateLimit, issuedJwts, nextToken, otpOrigin, failRun, granted>>
    ELSE IF userEnhanced[u].isBlocked THEN
        /\ resp' = R(403, "Account blocked")
        /\ UNCHANGED <<evidenceVars, enhancedVars, now, userVars, associatedCaseIds, otp, loginAttempts, sessions,
                       cases, auditLog, rateLimit, issuedJwts, nextToken, otpOrigin, failRun, granted>>
    ELSE IF portalRoleMap(portal) # userEnhanced[u].role THEN
        /\ userEnhanced[u].loginHistory < MaxCount
        /\ userEnhanced' = [userEnhanced EXCEPT ![u].loginHistory = @ + 1,
                                                ![u].securityAlerts = addSecurityAlert(@)]
        /\ resp' = R(403, "Access denied. Please use the correct portal for your role.")
        /\ UNCHANGED <<evidenceVars, otpStore, now, userVars, associatedCaseIds, otp, loginAttempts, sessions,
                       cases, auditLog, rateLimit, issuedJwts, nextToken, otpOrigin, failRun, granted>>
    ELSE IF userEnhanced[u].kycStatus # "verified" THEN
        /\ resp' = R(403, "Account not activated")
        /\ UNCHANGED <<evidenceVars, enhancedVars, now, userVars, associatedCaseIds, otp, loginAttempts, sessions,
                       cases, auditLog, rateLimit, issuedJwts, nextToken, otpOrigin, failRun, granted>>
    ELSE IF ~passwordOk THEN
        /\ userEnhanced[u].loginHistory < MaxCount
        /\ userEnhanced' = [userEnhanced EXCEPT ![u].loginHistory = @ + 1]
        /\ resp' = R(401, "Invalid credentials")
        /\ UNCHANGED <<evidenceVars, otpStore, now, userVars, associatedCaseIds, otp, loginAttempts, sessions,
                       cases, auditLog, rateLimit, issuedJwts, nextToken, otpOrigin, failRun, granted>>
    ELSE
        /\ Len(otpStore) < maxOtpTokens
        /\ userEnhanced' = [userEnhanced EXCEPT ![u].lastOtpSentAt = now]
        /\ otpStore' = Append(otpStore, [userId |-> u, otp |-> code, sentAt |-> now,
                                         attempts |-> 0, present |-> TRUE])
        /\ resp' = R(200, "OTP sent to your registered phone and email")
        /\ UNCHANGED <<evidenceVars, now, userVars, associatedCaseIds, otp, loginAttempts, sessions,
                       cases, auditLog, rateLimit, issuedJwts, nextToken, otpOrigin, failRun, granted>>

EnhancedLogin(username, passwordOk, portal, code) ==
    EnhancedLoginWithin(username, passwordOk, portal, code, MaxOtpTokens)

(* POST /verify-otp of the enhanced flow *)
EnhancedVerifyOtp(otpToken, code) ==
    LET R(status, kind, u) == Response("verify-otp", status, kind, u, "", "") IN
    IF otpToken \notin DOMAIN otpStore \/ ~otpStore[otpToken].present THEN
        /\ resp' = R(400, "Invalid or expired OTP token", "")
        /\ UNCHANGED <<evidenceVars, enhancedVars, now, userVars, associatedCaseIds, otp, loginAttempts, sessions,
                       cases, auditLog, rateLimit, issuedJwts, nextToken, otpOrigin, failRun, granted>>
    ELSE
        LET d == otpStore[otpToken]
            u == d.userId
            v == verifyOTPEnhanced(userEnhanced[u].otpAttempts, code, d.otp, d.sentAt, now)
            n == d.attempts + 1
            doc == AuditDoc("login", Missing, u, Missing, Missing)
        IN
        IF ~v.valid THEN
            /\ IF n >= OtpStoreMaxAttempts
               THEN /\ otpStore' = [otpStore EXCEPT ![otpToken] = NoOtpData]
                    \* the document is saved only here, with the counter verifyOTP left on it
                    /\ userEnhanced' = [userEnhanced EXCEPT ![u].otpAttempts = v.otpAttempts,
                                                            ![u].securityAlerts = addSecurityAlert(@)]
               ELSE /\ otpStore' = [otpStore EXCEPT ![otpToken].attempts = n]
                    /\ UNCHANGED userEnhanced
            /\ resp' = R(400, v.reason, u)
            /\ UNCHANGED <<evidenceVars, now, userVars, associatedCaseIds, otp, loginAttempts, sessions,
                           cases, auditLog, rateLimit, issuedJwts, nextToken, otpOrigin, failRun,
                           granted>>
        ELSE
            /\ userEnhanced' = [userEnhanced EXCEPT
                                  ![u].otpAttempts = v.otpAttempts,
                                  ![u].sessions = Append(@, [expiresAt |-> now + EnhancedSessionTtl,
                                                             isActive |-> TRUE]),
                                  ![u].loginHistory = @ + 1]
            /\ otpStore' = [otpStore EXCEPT ![otpToken] = NoOtpData]
            /\ auditLog' = AuditCreate(auditLog, doc)
            /\ resp' = IF AuditValid(doc)
                       THEN R(200, "Login successful", u)
                       ELSE R(500, "OTP verification failed", u)
            /\ UNCHANGED <<evidenceVars, now, userVars, associatedCaseIds, otp, loginAttempts, sessions,
                           cases, rateLimit, issuedJwts, nextToken, otpOrigin, failRun, granted>>

(* ------------------------------------------------------------------ *)
(* middleware/caseAccessControl.js                                      *)
(* ------------------------------------------------------------------ *)
\* authenticate: the status it answers with, 0 when it calls next()
authenticate(t) ==
    IF t = NoToken THEN [status |-> 401, kind |-> "Authentication required. No token provided."]
    ELSE IF t.exp <= now THEN [status |-> 401, kind |-> "Session expired. Please login again."]
    ELSE IF ~isActive[t.userId] THEN [status |-> 403, kind |-> "Account is inactive"]
    ELSE IF ~kycVerified[t.userId] THEN [status |-> 403, kind |-> "KYC verification required"]
    ELSE [status |-> 0, kind |-> "next"]

\* verifyCaseAccess: the status it answers with (0: next) and the audit collection after it
verifyCaseAccess(u, caseId, log) ==
    LET doc == AuditDoc("unauthorized_case_access_attempt", Missing, Missing, u, caseId) IN
    IF caseId = "" THEN [status |-> 400, kind |-> "Case ID is required", log |-> log]
    ELSE IF ~CaseActive(caseId)
         THEN [status |-> 404, kind |-> "Case not found or inactive", log |-> log]
    ELSE IF ~hasAccessToCase(u, caseId) THEN
         IF AuditValid(doc)
         THEN [status |-> 403, kind |-> "Access denied", log |-> AuditCreate(log, doc)]
         ELSE [status |-> 500, kind |-> "Error verifying case access", log |-> log]
    ELSE [status |-> 0, kind |-> "next", log |-> log]

\* validateSession: the status it answers with (0: next) and the session list it leaves;
\* exported by the middleware module, imported by none of the routers
validateSession(ss, sessionToken, t) ==
    LET idx == {i \in DOMAIN ss : ss[i].token = sessionToken /\ ss[i].isActive} IN
    IF sessionToken = 0
    THEN [status |-> 401, kind |-> "Session token required", sessions |-> ss]
    ELSE IF idx = {}
    THEN [status |-> 401, kind |-> "Invalid or expired session", sessions |-> ss]
    ELSE LET i == CHOOSE k \in idx : \A j \in idx : k <= j IN
         IF ss[i].expiresAt < t
         THEN [status |-> 401, kind |-> "Session expired. Please login again.",
               sessions |-> [ss EXCEPT ![i].isActive = FALSE]]
         ELSE [status |-> 0, kind |-> "next", sessions |-> ss]

accessLevels(level) ==
    CASE level = "read" -> 1
      [] level = "write" -> 2
      [] level = "admin" -> 3

\* requireCaseAccessLevel(requiredLevel): the status it answers with, 0 when it calls next()
requireCaseAccessLevelStrict(u, caseId, requiredLevel) ==
    IF caseId = "" THEN [status |-> 400, kind |-> "Case ID is required"]
    ELSE IF role[u] = "admin" THEN [status |-> 0, kind |-> "next"]
    ELSE IF getCaseAccessLevel(u, caseId) = "null"
         THEN [status |-> 403, kind |-> "No access to this case"]
    ELSE IF accessLevels(getCaseAccessLevel(u, caseId)) <= accessLevels(requiredLevel)
         THEN [status |-> 403, kind |-> "Insufficient permissions"]
    ELSE [status |-> 0, kind |-> "next"]

requireCaseAccessLevel(u, caseId, requiredLevel) ==
    IF caseId = "" THEN [status |-> 400, kind |-> "Case ID is required"]
    ELSE IF role[u] = "admin" THEN [status |-> 0, kind |-> "next"]
    ELSE IF getCaseAccessLevel(u, caseId) = "null"
         THEN [status |-> 403, kind |-> "No access to this case"]
    ELSE IF accessLevels(getCaseAccessLevel(u, caseId)) < accessLevels(requiredLevel)
         THEN [status |-> 403, kind |-> "Insufficient permissions"]
    ELSE [status |-> 0, kind |-> "next"]

\* logAction(action): res.send wrapped so that AuditLog.create runs (its failure only logged)
SendLog(log, u, action, caseId) ==
    AuditCreate(log, AuditDoc(action, Missing, Missing, u, caseId))

(* ------------------------------------------------------------------ *)
(* routes/evidenceWithCaseAccess.js: the case-scoped evidence routes   *)
(* ------------------------------------------------------------------ *)
CaseScopedOps == {"upload", "list", "download", "hash"}

RouteAction(op) ==
    CASE op = "upload" -> "evidence_upload"
      [] op = "list" -> "evidence_list_viewed"
      [] op = "download" -> "evidence_downloaded"
      [] op = "hash" -> "evidence_hash_retrieved"

HandlerAction(op) ==
    CASE op = "upload" -> "evidence_uploaded"
      [] op = "list" -> "evidence_list_accessed"
      [] op = "download" -> "evidence_downloaded"
      [] op = "hash" -> "evidence_hash_retrieved"

CaseRequest(op, t, caseId, fileHash) ==
    LET u == t.userId
        a == authenticate(t)
        v == verifyCaseAccess(u, caseId, auditLog)
        l == requireCaseAccessLevel(u, caseId, "write")
        R(status, kind, stage, data) ==
            [op |-> op, status |-> status, kind |-> kind, user |-> u, caseId |-> caseId,
             tokenCase |-> t.caseId, stage |-> stage, data |-> data]
        doc == AuditDoc(HandlerAction(op), Missing, Missing, u, caseId)
        \* the handler's own AuditLog.create, awaited inside its try block
        logged == AuditCreate(auditLog, doc)
    IN
    IF a.status # 0 THEN
        /\ resp' = R(a.status, a.kind, "authenticate", FALSE)
        /\ UNCHANGED <<evidenceVars, enhancedVars, now, userVars, associatedCaseIds, otp, loginAttempts, sessions, cases,
                       auditLog, rateLimit, issuedJwts, nextToken, otpOrigin, failRun, granted>>
    ELSE IF v.status # 0 THEN
        /\ resp' = R(v.status, v.kind, "verifyCaseAccess", FALSE)
        /\ auditLog' = v.log
        /\ UNCHANGED <<evidenceVars, enhancedVars, now, userVars, associatedCaseIds, otp, loginAttempts, sessions, cases,
                       rateLimit, issuedJwts, nextToken, otpOrigin, failRun, granted>>
    ELSE IF op = "upload" /\ l.status # 0 THEN
        /\ resp' = R(l.status, l.kind, "requireCaseAccessLevel", FALSE)
        /\ UNCHANGED <<evidenceVars, enhancedVars, now, userVars, associatedCaseIds, otp, loginAttempts, sessions, cases,
                       auditLog, rateLimit, issuedJwts, nextToken, otpOrigin, failRun, granted>>
    ELSE IF op = "upload" THEN
        /\ cases[caseId].evidenceCount < MaxEvidence
        /\ cases' = [cases EXCEPT ![caseId].timeline = @ + 1,
                                  ![caseId].evidenceCount = @ + 1]
        /\ uploads' = Append(uploads, [caseId |-> caseId, fileHash |-> fileHash])
        /\ auditLog' = SendLog(logged, u, RouteAction(op), caseId)
        /\ resp' = IF AuditValid(doc)
                   THEN R(201, "Evidence uploaded and encrypted successfully", "handler", FALSE)
                   ELSE R(500, "Error uploading evidence", "handler", FALSE)
        /\ UNCHANGED <<evidenceDocs, evidenceEnhanced, inflight, enhancedVars, now, userVars, associatedCaseIds, otp, loginAttempts, sessions,
                       rateLimit, issuedJwts, nextToken, otpOrigin, failRun, granted>>
    ELSE IF op \in {"download", "hash"} /\ cases[caseId].evidenceCount = 0 THEN
        \* the case directory does not exist yet: fs.readdir throws
        /\ auditLog' = SendLog(auditLog, u, RouteAction(op), caseId)
        /\ resp' = R(500, "Error retrieving evidence", "handler", FALSE)
        /\ UNCHANGED <<evidenceVars, enhancedVars, now, userVars, associatedCaseIds, otp, loginAttempts, sessions, cases,
                       rateLimit, issuedJwts, nextToken, otpOrigin, failRun, granted>>
    ELSE
        /\ auditLog' = SendLog(logged, u, RouteAction(op), caseId)
        /\ resp' = IF AuditValid(doc)
                   THEN R(200, "Evidence retrieved", "handler", TRUE)
                   ELSE R(500, "Error retrieving evidence", "handler", FALSE)
        /\ UNCHANGED <<evidenceVars, enhancedVars, now, userVars, associatedCaseIds, otp, loginAttempts, sessions, cases,
                       rateLimit, issuedJwts, nextToken, otpOrigin, failRun, granted>>

(* ------------------------------------------------------------------ *)
(* routes/workflowRoutes.js: the approval workflow                      *)
(* ------------------------------------------------------------------ *)
WorkflowOps == {"verify", "approve", "assign-forensic", "submit-analysis", "close"}

\* the role each route hands to requireRole
RouteRole(op) ==
    CASE op = "verify" -> "police"
      [] op = "approve" -> "admin"
      [] op = "assign-forensic" -> "police"
      [] op = "submit-analysis" -> "forensic_expert"
      [] op = "close" -> "admin"

\* the message of each route's catch block
RouteFailure(op) ==
    CASE op = "verify" -> "Verification failed"
      [] op = "approve" -> "Approval failed"
      [] op = "assign-forensic" -> "Assignment failed"
      [] op = "submit-analysis" -> "Submission failed"
      [] op = "close" -> "Failed to close case"

\* isSessionValid of a UserEnhanced document
isSessionValid(ss, sessionId, t) ==
    /\ sessionId \in DOMAIN ss
    /\ ss[sessionId].isActive
    /\ ~(t > ss[sessionId].expiresAt)

\* updateSessionActivity: the session list afterwards
updateSessionActivity(ss, sessionId, t) ==
    IF sessionId \in DOMAIN ss /\ ss[sessionId].isActive
    THEN [ss EXCEPT ![sessionId].expiresAt = t + EnhancedSessionTtl]
    ELSE ss

\* authenticateToken: the status it answers with (0: next) and the user collection it leaves
authenticateToken(users, u, sessionId) ==
    IF u = "" THEN [status |-> 401, kind |-> "Access token required", users |-> users]
    ELSE IF u \notin Users THEN [status |-> 404, kind |-> "User not found", users |-> users]
    ELSE IF users[u].isBlocked THEN [status |-> 403, kind |-> "Account blocked", users |-> users]
    ELSE IF ~isSessionValid(users[u].sessions, sessionId, now)
         THEN [status |-> 401, kind |-> "Session expired or invalid", users |-> users]
    ELSE [status |-> 0, kind |-> "next",
          users |-> [users EXCEPT ![u].sessions = updateSessionActivity(@, sessionId, now)]]

\* requireRole(...allowedRoles): a denial leaves a security alert on the operator's document
requireRoleEnhanced(users, u, allowedRoles) ==
    IF users[u].role \notin allowedRoles
    THEN [status |-> 403, kind |-> "Access denied",
          users |-> [users EXCEPT ![u].securityAlerts = addSecurityAlert(@)]]
    ELSE [status |-> 0, kind |-> "next", users |-> users]

\* evidence.visibleTo.push(role)
grantVisibilityOnly(visibleTo, r) == <<r>>
grantVisibility(visibleTo, r) == Append(visibleTo, r)

\* What a handler does to the document it has loaded: the status it answers with at once
\* (0: it goes on to save), the document as modified in memory and the action of the
\* audit entry it will create.
Outcome(status, kind, d, audit) ==
    [status |-> status, kind |-> kind, doc |-> d, audit |-> audit]

verifyGuardAnyStatus(d) == TRUE
verifyGuard(d) == d.status \in {"uploaded", "pending_verification"}

verifyEvidence(d, actor, verified) ==
    IF ~verifyGuard(d) THEN Outcome(400, "Evidence already processed", d, "")
    ELSE IF verified
    THEN Outcome(0, "Evidence verified successfully",
                 [d EXCEPT !.status = "pending_approval", !.verifiedAt = now,
                           !.verifiedBy = actor,
                           !.visibleTo = grantVisibility(@, "police")],
                 "verify")
    ELSE Outcome(0, "Evidence rejected",
                 [d EXCEPT !.status = "rejected", !.rejectedAt = now, !.rejectedBy = actor],
                 "reject")

approveGuardAnyStatus(d) == TRUE
approveGuard(d) == d.status = "pending_approval"

approveEvidence(d, actor, approved) ==
    IF ~approveGuard(d) THEN Outcome(400, "Evidence not pending approval", d, "")
    ELSE IF approved
    THEN Outcome(0, "Evidence approved successfully",
                 [d EXCEPT !.status = "approved", !.approvedAt = now, !.approvedBy = actor,
                           !.visibleTo = grantVisibility(@, "court_official")],
                 "approve")
    ELSE Outcome(0, "Evidence rejected",
                 [d EXCEPT !.status = "rejected", !.rejectedAt = now, !.rejectedBy = actor],
                 "reject")

assignForensic(users, d, actor, forensicExpertId) ==
    IF forensicExpertId \notin Users \/ users[forensicExpertId].role # "forensic_expert"
    THEN Outcome(400, "Invalid forensic expert", d, "")
    ELSE Outcome(0, "Evidence assigned to forensic expert",
                 [d EXCEPT !.assignedTo = forensicExpertId, !.assignedAt = now,
                           !.analysisStatus = "in_progress",
                           !.visibleTo = grantVisibility(@, "forensic_expert")],
                 "transfer")

submitAnalysis(d, actor) ==
    \* assignedTo.toString() throws on a document nobody was assigned to
    IF d.assignedTo = "" THEN Outcome(500, RouteFailure("submit-analysis"), d, "")
    ELSE IF d.assignedTo # actor THEN Outcome(403, "Not assigned to you", d, "")
    ELSE Outcome(0, "Analysis submitted successfully",
                 [d EXCEPT !.analysisStatus = "completed", !.completedAt = now],
                 "modify")

closeEvidence(d, actor) ==
    Outcome(0, "Case closed successfully",
            [d EXCEPT !.status = "closed", !.closedAt = now, !.closedBy = actor],
            "close")

\* A request body: verified / approved, and forensicExpertId
Args == [flag : BOOLEAN, expert : {"eve", "bob"}]

Transition(op, users, d, actor, arg) ==
    CASE op = "verify" -> verifyEvidence(d, actor, arg.flag)
      [] op = "approve" -> approveEvidence(d, actor, arg.flag)
      [] op = "assign-forensic" -> assignForensic(users, d, actor, arg.expert)
      [] op = "submit-analysis" -> submitAnalysis(d, actor)
      [] op = "close" -> closeEvidence(d, actor)

\* The middleware chain, findOne and the handler's work on the loaded document:
\* everything a request does before evidence.save()
Load(op, u, sessionId, evidenceId, arg) ==
    LET a == authenticateToken(userEnhanced, u, sessionId)
        r == requireRoleEnhanced(a.users, u, {RouteRole(op)})
        None(status, kind, users) ==
            [status |-> status, kind |-> kind, users |-> users, snap |-> NewEvidence,
             doc |-> NewEvidence, audit |-> ""]
    IN
    IF a.status # 0 THEN None(a.status, a.kind, a.users)
    ELSE IF r.status # 0 THEN None(r.status, r.kind, r.users)
    ELSE IF evidenceId \notin EvidenceIds THEN None(404, "Evidence not found", r.users)
    ELSE LET d == evidenceEnhanced[evidenceId]
             o == Transition(op, r.users, d, u, arg)
         IN  [status |-> o.status, kind |-> o.kind, users |-> r.users, snap |-> d,
              doc |-> o.doc, audit |-> o.audit]

\* evidence.save(): the paths modified since the document was loaded are written;
\* roles pushed onto visibleTo are appended to the stored array ($push), an array
\* assigned anew replaces it ($set)
SaveDoc(stored, snap, doc) ==
    LET n == Len(snap.visibleTo)
        pushed == Len(doc.visibleTo) >= n /\ SubSeq(doc.visibleTo, 1, n) = snap.visibleTo
    IN  [f \in DOMAIN stored |->
            IF doc[f] = snap[f] THEN stored[f]
            ELSE IF f = "visibleTo" /\ pushed
                 THEN stored.visibleTo \o SubSeq(doc.visibleTo, n + 1, Len(doc.visibleTo))
                 ELSE doc[f]]

WorkflowAudit(action, evidenceId, actor) ==
    AuditDoc(action, evidenceId, actor, Missing, Missing)

\* One workflow request from its arrival to its response
WorkflowRequest(op, u, sessionId, evidenceId, arg) ==
    LET l == Load(op, u, sessionId, evidenceId, arg)
        doc == WorkflowAudit(l.audit, evidenceId, u)
    IN
    /\ \A p \in Procs : inflight[p].pc \in {"idle", "done"}
    /\ userEnhanced' = l.users
    /\ IF l.status # 0
       THEN /\ resp' = Response(op, l.status, l.kind, u, evidenceId, "")
            /\ UNCHANGED <<evidenceEnhanced, auditLog>>
       ELSE /\ evidenceEnhanced' = [evidenceEnhanced EXCEPT ![evidenceId] =
                                       SaveDoc(@, l.snap, l.doc)]
            /\ auditLog' = AuditCreate(auditLog, doc)
            /\ resp' = IF AuditValid(doc)
                       THEN Response(op, 200, l.kind, u, evidenceId, "")
                       ELSE Response(op, 500, RouteFailure(op), u, evidenceId, "")
    /\ UNCHANGED <<now, userVars, associatedCaseIds, otp, loginAttempts, sessions, cases,
                   rateLimit, issuedJwts, nextToken, otpStore, otpOrigin, failRun, granted,
                   evidenceDocs, inflight, uploads>>

\* Where a handler awaits sendNotification: before evidence.save() (verify, accepting
\* approve), between the save and the audit entry (assign-forensic), after the audit
\* entry (submit-analysis), or nowhere
NotifyPoint(op, arg) ==
    CASE op = "verify" -> "before-save"
      [] op = "approve" -> IF arg.flag THEN "before-save" ELSE "none"
      [] op = "assign-forensic" -> "before-audit"
      [] op = "submit-analysis" -> "before-response"
      [] op = "close" -> "none"

\* One workflow request whose sendNotification call is delivered or rejects: a
\* rejection leaves the try block where it is awaited, for the route's catch
WorkflowRequestNotified(op, u, sessionId, evidenceId, arg, delivered) ==
    LET l == Load(op, u, sessionId, evidenceId, arg)
        doc == WorkflowAudit(l.audit, evidenceId, u)
        at == NotifyPoint(op, arg)
    IN
    IF delivered \/ l.status # 0 \/ at = "none"
    THEN WorkflowRequest(op, u, sessionId, evidenceId, arg)
    ELSE
        /\ \A p \in Procs : inflight[p].pc \in {"idle", "done"}
        /\ userEnhanced' = l.users
        /\ evidenceEnhanced' = IF at = "before-save" THEN evidenceEnhanced
                               ELSE [evidenceEnhanced EXCEPT ![evidenceId] =
                                        SaveDoc(@, l.snap, l.doc)]
        /\ auditLog' = IF at = "before-response" THEN AuditCreate(auditLog, doc)
                       ELSE auditLog
        /\ resp' = Response(op, 500, RouteFailure(op), u, evidenceId, "")
        /\ UNCHANGED <<now, userVars, associatedCaseIds, otp, loginAttempts, sessions, cases,
                       rateLimit, issuedJwts, nextToken, otpStore, otpOrigin, failRun,
                       granted, evidenceDocs, inflight, uploads>>

\* The same request as the steps other requests can run between: up to the save,
\* the save, and the audit entry with the response.
Begin(p, op, u, sessionId, evidenceId, arg) ==
    LET l == Load(op, u, sessionId, evidenceId, arg) IN
    /\ inflight[p].pc = "idle"
    /\ userEnhanced' = l.users
    /\ inflight' = [inflight EXCEPT ![p] =
                      [pc |-> IF l.status # 0 THEN "done" ELSE "loaded", op |-> op,
                       actor |-> u, evidenceId |-> evidenceId, status |-> l.status,
                       kind |-> l.kind, snap |-> l.snap, doc |-> l.doc, audit |-> l.audit]]
    /\ UNCHANGED <<now, userVars, associatedCaseIds, otp, loginAttempts, sessions, cases,
                   auditLog, rateLimit, issuedJwts, nextToken, resp, otpStore, otpOrigin,
                   failRun, granted, evidenceDocs, evidenceEnhanced, uploads>>

Save(p) ==
    LET q == inflight[p] IN
    /\ q.pc = "loaded"
    /\ evidenceEnhanced' = [evidenceEnhanced EXCEPT ![q.evidenceId] =
                               SaveDoc(@, q.snap, q.doc)]
    /\ inflight' = [inflight EXCEPT ![p].pc = "saved"]
    /\ UNCHANGED <<now, userVars, enhancedVars, associatedCaseIds, otp, loginAttempts,
                   sessions, cases, auditLog, rateLimit, issuedJwts, nextToken, resp,
                   otpOrigin, failRun, granted, evidenceDocs, uploads>>

Finish(p) ==
    LET q == inflight[p]
        doc == WorkflowAudit(q.audit, q.evidenceId, q.actor)
    IN
    /\ q.pc = "saved"
    /\ auditLog' = AuditCreate(auditLog, doc)
    /\ inflight' = [inflight EXCEPT ![p].pc = "done",
                                    ![p].status = IF AuditValid(doc) THEN 200 ELSE 500,
                                    ![p].kind = IF AuditValid(doc) THEN q.kind
                                                ELSE RouteFailure(q.op)]
    /\ resp' = Response(q.op, IF AuditValid(doc) THEN 200 ELSE 500,
                        IF AuditValid(doc) THEN q.kind ELSE RouteFailure(q.op),
                        q.actor, q.evidenceId, "")
    /\ UNCHANGED <<now, userVars, enhancedVars, associatedCaseIds, otp, loginAttempts,
                   sessions, cases, rateLimit, issuedJwts, nextToken, otpOrigin, failRun,
                   granted, evidenceDocs, evidenceEnhanced, uploads>>

\* The operators of the workflow after each has signed in through the enhanced login
WorkflowOperators ==
    [u \in Users |->
        [role |-> CASE u = "admin" -> "admin" [] u = "bob" -> "police"
                    [] u = "eve" -> "forensic_expert",
         kycStatus |-> "verified", isBlocked |-> FALSE, otpAttempts |-> 0,
         lastOtpSentAt |-> NoDate,
         sessions |-> <<[expiresAt |-> EnhancedSessionTtl, isActive |-> TRUE]>>,
         loginHistory |-> 1, securityAlerts |-> 0]]

InitWorkflow == InitStoreWith(<< >>, WorkflowOperators)

(* ------------------------------------------------------------------ *)
(* routes/evidence.js: upload into the Evidence collection              *)
(* ------------------------------------------------------------------ *)
\* Evidence.findOne({ hash })
existingEvidence(hash) ==
    \E i \in DOMAIN evidenceDocs : evidenceDocs[i].hash = hash

(* POST /upload, for the authenticated operator u *)
UploadEvidence(u, hasFile, caseNumber, hash) ==
    LET R(status, kind) == Response("evidence-upload", status, kind, u, caseNumber, "")
        doc == AuditDoc("upload", hash, u, Missing, Missing)
    IN
    IF ~hasFile THEN
        /\ resp' = R(400, "No file uploaded")
        /\ UNCHANGED <<evidenceVars, enhancedVars, now, userVars, associatedCaseIds, otp,
                       loginAttempts, sessions, cases, auditLog, rateLimit, issuedJwts,
                       nextToken, otpOrigin, failRun, granted>>
    ELSE IF caseNumber = "" THEN
        /\ resp' = R(400, "Case number is required")
        /\ UNCHANGED <<evidenceVars, enhancedVars, now, userVars, associatedCaseIds, otp,
                       loginAttempts, sessions, cases, auditLog, rateLimit, issuedJwts,
                       nextToken, otpOrigin, failRun, granted>>
    ELSE IF existingEvidence(hash) THEN
        /\ resp' = R(400, "Evidence with this hash already exists")
        /\ UNCHANGED <<evidenceVars, enhancedVars, now, userVars, associatedCaseIds, otp,
                       loginAttempts, sessions, cases, auditLog, rateLimit, issuedJwts,
                       nextToken, otpOrigin, failRun, granted>>
    ELSE
        /\ evidenceDocs' = Append(evidenceDocs, [hash |-> hash, caseNumber |-> caseNumber,
                                                 uploadedBy |-> u, currentOwner |-> u,
                                                 status |-> "uploaded"])
        /\ auditLog' = AuditCreate(auditLog, doc)
        /\ resp' = IF AuditValid(doc)
                   THEN R(201, "Evidence uploaded successfully")
                   ELSE R(500, "Failed to upload evidence")
        /\ UNCHANGED <<enhancedVars, now, userVars, associatedCaseIds, otp, loginAttempts,
                       sessions, cases, rateLimit, issuedJwts, nextToken, otpOrigin, failRun,
                       granted, evidenceEnhanced, inflight, uploads>>

\* models/Evidence.js: the values the schema accepts for status
EvidenceStatusEnum == {"uploaded", "verified", "in_analysis", "transferred", "closed"}

(* POST /:id/transfer, for the authenticated operator u; id is the position of the record *)
TransferEvidence(u, id, toUserId) ==
    LET R(status, kind) == Response("transfer", status, kind, u, "", "")
        doc == AuditDoc("transfer", IF id \in DOMAIN evidenceDocs THEN evidenceDocs[id].hash
                                    ELSE Missing, u, Missing, Missing)
        denied == \/ toUserId = ""
                  \/ id \notin DOMAIN evidenceDocs
                  \/ evidenceDocs[id].currentOwner # u /\ role[u] # "admin"
    IN
    /\ IF denied
       THEN /\ resp' = IF toUserId = "" THEN R(400, "Target user ID is required")
                       ELSE IF id \notin DOMAIN evidenceDocs THEN R(404, "Evidence not found")
                       ELSE R(403, "Only the current owner can transfer evidence")
            /\ UNCHANGED <<evidenceDocs, auditLog>>
       ELSE /\ evidenceDocs' = [evidenceDocs EXCEPT ![id].currentOwner = toUserId,
                                                    ![id].status = "transferred"]
            /\ auditLog' = AuditCreate(auditLog, doc)
            /\ resp' = R(200, "Evidence transferred successfully")
    /\ UNCHANGED <<enhancedVars, now, userVars, associatedCaseIds, otp, loginAttempts,
                   sessions, cases, rateLimit, issuedJwts, nextToken, otpOrigin, failRun,
                   granted, evidenceEnhanced, inflight, uploads>>

(* PATCH /:id/status, for the authenticated operator u *)
UpdateStatus(u, id, status) ==
    LET R(code, kind) == Response("status", code, kind, u, "", "")
        doc == AuditDoc("modify", IF id \in DOMAIN evidenceDocs THEN evidenceDocs[id].hash
                                  ELSE Missing, u, Missing, Missing)
        accepted == /\ status # ""
                    /\ id \in DOMAIN evidenceDocs
                    /\ status \in EvidenceStatusEnum
    IN
    /\ IF ~accepted
       THEN /\ resp' = IF status = "" THEN R(400, "Status is required")
                       ELSE IF id \notin DOMAIN evidenceDocs THEN R(404, "Evidence not found")
                       \* save() rejects a value outside the enum
                       ELSE R(500, "Failed to update status")
            /\ UNCHANGED <<evidenceDocs, auditLog>>
       ELSE /\ evidenceDocs' = [evidenceDocs EXCEPT ![id].status = status]
            /\ auditLog' = AuditCreate(auditLog, doc)
            /\ resp' = R(200, "Evidence status updated")
    /\ UNCHANGED <<enhancedVars, now, userVars, associatedCaseIds, otp, loginAttempts,
                   sessions, cases, rateLimit, issuedJwts, nextToken, otpOrigin, failRun,
                   granted, evidenceEnhanced, inflight, uploads>>

(* ------------------------------------------------------------------ *)
(* routes/audit.js: reading the ledger                                  *)
(* ------------------------------------------------------------------ *)
\* .sort({ timestamp: 1 }): ascending by timestamp, entries with equal timestamps
\* in the order the collection holds them
RECURSIVE SortByTimestamp(_)
SortByTimestamp(seq) ==
    IF seq = << >> THEN << >>
    ELSE LET rest == SortByTimestamp(SubSeq(seq, 1, Len(seq) - 1))
             x == seq[Len(seq)]
             k == Cardinality({i \in DOMAIN rest : rest[i].timestamp <= x.timestamp})
         IN  SubSeq(rest, 1, k) \o <<x>> \o SubSeq(rest, k + 1, Len(rest))

\* AuditLog.find({ evidenceId })
AuditFind(evidenceId) ==
    LET Is(entry) == entry.evidenceId = evidenceId IN SelectSeq(auditLog, Is)

\* GET /report/:evidenceId: the entries the report lists, in its order
auditReport(evidenceId) == SortByTimestamp(AuditFind(evidenceId))

(* ------------------------------------------------------------------ *)
(* routes/caseRoutes.js                                                 *)
(* ------------------------------------------------------------------ *)
\* authMiddleware, then adminOnly
authMiddleware(t) ==
    IF t = NoToken THEN [status |-> 401, kind |-> "No token provided"]
    ELSE IF t.exp <= now THEN [status |-> 401, kind |-> "Invalid or expired token"]
    ELSE IF ~isActive[t.userId] THEN [status |-> 401, kind |-> "Invalid token"]
    ELSE [status |-> 0, kind |-> "next"]

adminOnly(u) ==
    IF role[u] # "admin" THEN [status |-> 403, kind |-> "Admin access required"]
    ELSE [status |-> 0, kind |-> "next"]

(* POST /api/cases/assign-user *)
AssignUser(t, caseId, userId, accessLevel) ==
    LET a == authMiddleware(t)
        R(status, kind, stage) ==
            [op |-> "assign-user", status |-> status, kind |-> kind, user |-> userId,
             caseId |-> caseId, tokenCase |-> t.caseId, stage |-> stage, data |-> FALSE]
        level == IF accessLevel = "" THEN "read" ELSE accessLevel
        doc == AuditDoc("user_assigned_to_case", Missing, Missing, t.userId, caseId)
    IN
    IF a.status # 0 THEN
        /\ resp' = R(a.status, a.kind, "authMiddleware")
        /\ UNCHANGED <<evidenceVars, enhancedVars, now, userVars, associatedCaseIds, otp, loginAttempts, sessions, cases,
                       auditLog, rateLimit, issuedJwts, nextToken, otpOrigin, failRun, granted>>
    ELSE IF adminOnly(t.userId).status # 0 THEN
        /\ resp' = R(403, "Admin access required", "adminOnly")
        /\ UNCHANGED <<evidenceVars, enhancedVars, now, userVars, associatedCaseIds, otp, loginAttempts, sessions, cases,
                       auditLog, rateLimit, issuedJwts, nextToken, otpOrigin, failRun, granted>>
    ELSE IF caseId = "" THEN
        /\ resp' = R(400, "Case ID and User ID are required", "handler")
        /\ UNCHANGED <<evidenceVars, enhancedVars, now, userVars, associatedCaseIds, otp, loginAttempts, sessions, cases,
                       auditLog, rateLimit, issuedJwts, nextToken, otpOrigin, failRun, granted>>
    ELSE IF caseId \notin CaseIds THEN
        /\ resp' = R(404, "Case not found", "handler")
        /\ UNCHANGED <<evidenceVars, enhancedVars, now, userVars, associatedCaseIds, otp, loginAttempts, sessions, cases,
                       auditLog, rateLimit, issuedJwts, nextToken, otpOrigin, failRun, granted>>
    ELSE IF userId \notin Users THEN
        /\ resp' = R(404, "User not found", "handler")
        /\ UNCHANGED <<evidenceVars, enhancedVars, now, userVars, associatedCaseIds, otp, loginAttempts, sessions, cases,
                       auditLog, rateLimit, issuedJwts, nextToken, otpOrigin, failRun, granted>>
    ELSE IF SomeGrant(associatedCaseIds[userId], caseId) THEN
        /\ resp' = R(400, "User already assigned to this case", "handler")
        /\ UNCHANGED <<evidenceVars, enhancedVars, now, userVars, associatedCaseIds, otp, loginAttempts, sessions, cases,
                       auditLog, rateLimit, issuedJwts, nextToken, otpOrigin, failRun, granted>>
    ELSE
        /\ associatedCaseIds' = [associatedCaseIds EXCEPT ![userId] =
                                   Append(@, [caseId |-> caseId, accessLevel |-> level])]
        /\ granted' = granted \cup {<<userId, caseId, level>>}
        /\ cases' = [cases EXCEPT ![caseId].assignedUsers = @ \cup {userId},
                                  ![caseId].timeline = @ + 1]
        /\ auditLog' = AuditCreate(auditLog, doc)
        /\ resp' = IF AuditValid(doc)
                   THEN R(200, "User assigned to case successfully", "handler")
                   ELSE R(500, "Server error while assigning user", "handler")
        /\ UNCHANGED <<evidenceVars, enhancedVars, now, userVars, otp, loginAttempts, sessions,
                       rateLimit, issuedJwts, nextToken, otpOrigin, failRun>>

\* The same request as the steps other requests can run between: the middleware, the
\* validation, Case.findOne, findById and the alreadyAssigned test on the loaded
\* operator; then user.save() with the grant pushed, caseDoc.assignUser, the timeline
\* entry, the audit entry and the response.
AssignBegin(p, t, caseId, userId, accessLevel) ==
    LET a == authMiddleware(t)
        R(status, kind, stage) ==
            [op |-> "assign-user", status |-> status, kind |-> kind, user |-> userId,
             caseId |-> caseId, tokenCase |-> t.caseId, stage |-> stage, data |-> FALSE]
        early == IF a.status # 0 THEN R(a.status, a.kind, "authMiddleware")
                 ELSE IF adminOnly(t.userId).status # 0
                      THEN R(403, "Admin access required", "adminOnly")
                 ELSE IF caseId = ""
                      THEN R(400, "Case ID and User ID are required", "handler")
                 ELSE IF caseId \notin CaseIds THEN R(404, "Case not found", "handler")
                 ELSE IF userId \notin Users THEN R(404, "User not found", "handler")
                 ELSE IF SomeGrant(associatedCaseIds[userId], caseId)
                      THEN R(400, "User already assigned to this case", "handler")
                 ELSE R(0, "next", "handler")
    IN
    /\ inflight[p].pc = "idle"
    /\ inflight' = [inflight EXCEPT ![p] =
                      [pc |-> IF early.status # 0 THEN "done" ELSE "loaded",
                       op |-> "assign-user", actor |-> t.userId, caseId |-> caseId,
                       userId |-> userId, tokenCase |-> t.caseId,
                       level |-> IF accessLevel = "" THEN "read" ELSE accessLevel]]
    /\ resp' = IF early.status # 0 THEN early ELSE resp
    /\ UNCHANGED <<now, userVars, enhancedVars, associatedCaseIds, otp, loginAttempts,
                   sessions, cases, auditLog, rateLimit, issuedJwts, nextToken, otpOrigin,
                   failRun, granted, evidenceDocs, evidenceEnhanced, uploads>>

AssignFinish(p) ==
    LET q == inflight[p]
        doc == AuditDoc("user_assigned_to_case", Missing, Missing, q.actor, q.caseId)
        R(status, kind) ==
            [op |-> "assign-user", status |-> status, kind |-> kind, user |-> q.userId,
             caseId |-> q.caseId, tokenCase |-> q.tokenCase, stage |-> "handler",
             data |-> FALSE]
    IN
    /\ q.pc = "loaded"
    /\ q.op = "assign-user"
    \* user.save(): the pushed grant is appended to the stored array
    /\ associatedCaseIds' = [associatedCaseIds EXCEPT ![q.userId] =
                               Append(@, [caseId |-> q.caseId, accessLevel |-> q.level])]
    /\ granted' = granted \cup {<<q.userId, q.caseId, q.level>>}
    /\ cases' = [cases EXCEPT ![q.caseId].assignedUsers = @ \cup {q.userId},
                              ![q.caseId].timeline = @ + 1]
    /\ auditLog' = AuditCreate(auditLog, doc)
    /\ resp' = IF AuditValid(doc)
               THEN R(200, "User assigned to case successfully")
               ELSE R(500, "Server error while assigning user")
    /\ inflight' = [inflight EXCEPT ![p].pc = "done"]
    /\ UNCHANGED <<now, userVars, enhancedVars, otp, loginAttempts, sessions, rateLimit,
                   issuedJwts, nextToken, otpOrigin, failRun, evidenceDocs,
                   evidenceEnhanced, uploads>>

\* PUT /:caseId/status: what the handler assigns to the case document
setCaseStatusOnly(caseDoc, status) == [caseDoc EXCEPT !.status = status]
setCaseStatus(caseDoc, status) ==
    [caseDoc EXCEPT !.status = status,
                    !.isActive = IF status \in {"closed", "archived"} THEN FALSE ELSE @]

(* PUT /api/cases/:caseId/status *)
UpdateCaseStatus(t, caseId, status) ==
    LET a == authMiddleware(t)
        R(code, kind, stage) ==
            [op |-> "case-status", status |-> code, kind |-> kind, user |-> t.userId,
             caseId |-> caseId, tokenCase |-> t.caseId, stage |-> stage, data |-> FALSE]
        doc == AuditDoc("case_status_updated", Missing, Missing, t.userId, caseId)
        early == IF a.status # 0 THEN R(a.status, a.kind, "authMiddleware")
                 ELSE IF adminOnly(t.userId).status # 0
                      THEN R(403, "Admin access required", "adminOnly")
                 ELSE IF status \notin {"active", "closed", "pending", "archived"}
                      THEN R(400, "Invalid status", "handler")
                 ELSE IF caseId \notin CaseIds THEN R(404, "Case not found", "handler")
                 ELSE R(0, "next", "handler")
    IN
    /\ IF early.status # 0
       THEN /\ resp' = early
            /\ UNCHANGED <<cases, auditLog>>
       ELSE /\ cases' = [cases EXCEPT ![caseId] =
                            [setCaseStatus(@, status) EXCEPT !.timeline = @ + 1]]
            /\ auditLog' = AuditCreate(auditLog, doc)
            /\ resp' = IF AuditValid(doc)
                       THEN R(200, "Case status updated successfully", "handler")
                       ELSE R(500, "Server error while updating case status", "handler")
    /\ UNCHANGED <<evidenceVars, enhancedVars, now, userVars, associatedCaseIds, otp,
                   loginAttempts, sessions, rateLimit, issuedJwts, nextToken, otpOrigin,
                   failRun, granted>>

(* ------------------------------------------------------------------ *)
(* Requests                                                             *)
(* ------------------------------------------------------------------ *)
Tokens == issuedJwts \cup {NoToken}

(* Access control: operators who are not signed in yet sign in with their  *)
(* own credentials to a case they hold (the admin to CASE-A) and submit    *)
(* the code for the case they named; the admin assigns grants;             *)
(* case-scoped requests are made with the issued tokens.                   *)
AccessStep1 == \E u \in {"admin", "bob"}, c \in CaseIds :
                   /\ otp[u].code = ""
                   /\ sessions[u] = << >>
                   /\ hasAccessToCase(u, c)
                   /\ u = "admin" => c = "CASE-A"
                   /\ LoginStep1(u, TRUE, c, "ip1", "111111")
AccessStep2 == \E u \in {"admin", "bob"} :
                   /\ otp[u].code # ""
                   /\ LoginStep2(u, otp[u].code, otpOrigin[u])
Assign == \E t \in Tokens, c \in CaseIds \cup {NoCase}, lv \in {"", "write", "admin"} :
              AssignUser(t, c, "bob", lv)
Request == \E op \in CaseScopedOps, t \in Tokens, c \in CaseIds \cup {NoCase} :
               CaseRequest(op, t, c, "h1")

Next ==
    \/ AccessStep1
    \/ AccessStep2
    \/ Assign
    \/ Request

Spec == Init /\ [][Next]_vars

(* Lockout: bob, who holds a grant on CASE-A, submits right and wrong      *)
(* passwords for any case, and the code of login-step1; the clock moves   *)
(* around the end of a lockout.                                           *)
LockStep1 == \E ok \in BOOLEAN, c \in CaseIds \cup {NoCase} :
                 LoginStep1("bob", ok, c, "ip1", "111111")
LockStep2 == LoginStep2("bob", "111111", "CASE-A")
LockTick == Advance(LockExpiries, MaxTime)

NextLock ==
    \/ LockStep1
    \/ LockStep2
    \/ LockTick

SpecLock == InitGranted /\ [][NextLock]_vars

(* The login protocol: bob and eve (inactive, KYC pending) call            *)
(* login-step1 with their password for CASE-A, login-step2 and resend-otp  *)
(* in any order.                                                           *)
LoginS1 == \E u \in {"bob", "eve"} : LoginStep1(u, TRUE, "CASE-A", "ip1", "111111")
LoginS2 == \E u \in {"bob", "eve"}, code \in OtpCodes, c \in {"CASE-A", NoCase} :
               LoginStep2(u, code, c)
LoginResend == \E u \in {"bob", "eve"} : ResendOtp(u, "111111")

NextLogin ==
    \/ LoginS1
    \/ LoginS2
    \/ LoginResend

SpecLogin == InitGranted /\ [][NextLogin]_vars

(* One-time codes of both login flows: bob asks for a code when none is    *)
(* pending and he is not signed in, and submits right and wrong codes; the *)
(* clock moves around five minutes after a code was sent and around its    *)
(* stored expiry.                                                          *)
OtpStep1 == /\ otp["bob"].code = ""
            /\ sessions["bob"] = << >>
            /\ LoginStep1("bob", TRUE, "CASE-A", "ip1", "111111")
OtpStep2 == \E code \in OtpCodes : LoginStep2("bob", code, "CASE-A")
OtpEnhancedLogin == EnhancedLogin("bob", TRUE, "citizen", "111111")
OtpEnhancedVerify == \E k \in 1..MaxOtpTokens, code \in OtpCodes : EnhancedVerifyOtp(k, code)
OtpTick == Advance(OtpExpiries \cup FiveMinuteInstants, MaxOtpTime)

NextOtp ==
    \/ OtpStep1
    \/ OtpStep2
    \/ OtpEnhancedLogin
    \/ OtpEnhancedVerify
    \/ OtpTick

SpecOtp == InitGranted /\ [][NextOtp]_vars

(* Sessions: bob signs in to CASE-A, logs out of his sessions and makes    *)
(* list requests for CASE-A with the tokens he was issued.                 *)
SessionStep1 == /\ otp["bob"].code = ""
                /\ LoginStep1("bob", TRUE, "CASE-A", "ip1", "111111")
SessionStep2 == /\ otp["bob"].code # ""
                /\ LoginStep2Within("bob", otp["bob"].code, "CASE-A", MaxLogins)
SessionLogout == \E k \in 0..MaxLogins : Logout("bob", k)
SessionRequest == \E t \in Tokens : CaseRequest("list", t, "CASE-A", "h1")

NextSession ==
    \/ SessionStep1
    \/ SessionStep2
    \/ SessionLogout
    \/ SessionRequest

SpecSession == InitGranted /\ [][NextSession]_vars

(* Session lists: bob signs in again and again, through the case-scoped   *)
(* login and through the enhanced login.                                  *)
CapStep1 == /\ otp["bob"].code = ""
            /\ LoginStep1("bob", TRUE, "CASE-A", "ip1", "111111")
CapStep2 == /\ otp["bob"].code # ""
            /\ LoginStep2Within("bob", otp["bob"].code, "CASE-A", MaxLogins)
CapEnhancedLogin == /\ \A k \in DOMAIN otpStore : ~otpStore[k].present
                    /\ EnhancedLoginWithin("bob", TRUE, "citizen", "111111", MaxLogins)
CapEnhancedVerify == \E k \in DOMAIN otpStore :
                         /\ otpStore[k].present
                         /\ EnhancedVerifyOtp(k, otpStore[k].otp)

NextCap ==
    \/ CapStep1
    \/ CapStep2
    \/ CapEnhancedLogin
    \/ CapEnhancedVerify

SpecCap == InitGranted /\ [][NextCap]_vars

(* Resending a code: bob asks for a code, asks again, and time passes.   *)
ResendStep1 == /\ otp["bob"].code = ""
               /\ LoginStep1("bob", TRUE, "CASE-A", "ip1", "111111")
ResendStep2 == \E code \in OtpCodes : LoginStep2("bob", code, "CASE-A")
ResendAgain == \E u \in {"bob", "nobody"}, code \in OtpCodes : ResendOtp(u, code)
ResendTick == Advance(ResendInstants, MaxResendTime)

NextResend ==
    \/ ResendStep1
    \/ ResendStep2
    \/ ResendAgain
    \/ ResendTick

SpecResend == InitGranted /\ [][NextResend]_vars

(* The approval workflow: requests handled one at a time.                 *)
WorkflowBounded(op, u) ==
    /\ userEnhanced[u].role = RouteRole(op) \/ userEnhanced[u].securityAlerts < MaxDenials
    /\ Len(auditLog) < MaxAudit
    /\ \A e \in EvidenceIds : Len(evidenceEnhanced[e].visibleTo) < MaxVisible

WorkflowVerify ==
    \E u \in {"bob", "admin"}, sessionId \in {1, 2}, flag \in BOOLEAN :
        /\ WorkflowBounded("verify", u)
        /\ WorkflowRequest("verify", u, sessionId, "EV-1", [flag |-> flag, expert |-> "eve"])
WorkflowApprove ==
    \E u \in {"admin", "bob"}, flag \in BOOLEAN :
        /\ WorkflowBounded("approve", u)
        /\ WorkflowRequest("approve", u, 1, "EV-1", [flag |-> flag, expert |-> "eve"])
WorkflowAssign ==
    \E arg \in Args :
        /\ WorkflowBounded("assign-forensic", "bob")
        /\ WorkflowRequest("assign-forensic", "bob", 1, "EV-1", arg)
WorkflowSubmit ==
    \E u \in {"eve", "bob"} :
        /\ WorkflowBounded("submit-analysis", u)
        /\ WorkflowRequest("submit-analysis", u, 1, "EV-1", [flag |-> TRUE, expert |-> "eve"])
WorkflowClose ==
    \E e \in {"EV-1", "EV-0"} :
        /\ WorkflowBounded("close", "admin")
        /\ WorkflowRequest("close", "admin", 1, e, [flag |-> TRUE, expert |-> "eve"])

NextWorkflow ==
    \/ WorkflowVerify
    \/ WorkflowApprove
    \/ WorkflowAssign
    \/ WorkflowSubmit
    \/ WorkflowClose

SpecWorkflow == InitWorkflow /\ [][NextWorkflow]_vars

(* Two workflow requests on the same item, their steps interleaved.      *)
RaceVerifyFirst ==
    /\ \A p \in Procs : inflight[p].pc = "idle"
    /\ evidenceEnhanced["EV-1"].status = "uploaded"
    /\ WorkflowRequest("verify", "bob", 1, "EV-1", [flag |-> TRUE, expert |-> "eve"])
RaceBegin ==
    \E p \in Procs, flag \in BOOLEAN :
        \/ Begin(p, "verify", "bob", 1, "EV-1", [flag |-> flag, expert |-> "eve"])
        \/ Begin(p, "approve", "admin", 1, "EV-1", [flag |-> flag, expert |-> "eve"])
RaceSave == \E p \in Procs : Save(p)
RaceFinish == \E p \in Procs : Finish(p)

NextRace ==
    \/ RaceVerifyFirst
    \/ RaceBegin
    \/ RaceSave
    \/ RaceFinish

SpecRace == InitWorkflow /\ [][NextRace]_vars

(* Uploads: through routes/evidence.js and through the case-scoped route *)
UploadStep1 == \E c \in CaseIds :
                   /\ otp["admin"].code = ""
                   /\ sessions["admin"] = << >>
                   /\ LoginStep1("admin", TRUE, c, "ip1", "111111")
UploadStep2 == \E c \in CaseIds :
                   /\ otp["admin"].code # ""
                   /\ LoginStep2("admin", otp["admin"].code, c)
UploadToCollection ==
    \E hasFile \in BOOLEAN, caseNumber \in CaseIds \cup {""}, hash \in FileHashes :
        UploadEvidence("bob", hasFile, caseNumber, hash)
UploadToCase ==
    \E t \in Tokens, c \in CaseIds, fileHash \in FileHashes :
        CaseRequest("upload", t, c, fileHash)

NextUpload ==
    \/ UploadStep1
    \/ UploadStep2
    \/ UploadToCollection
    \/ UploadToCase

SpecUpload == Init /\ [][NextUpload]_vars

(* The audit ledger over time: operations that store entries, and the clock *)
LedgerVerify ==
    /\ WorkflowBounded("verify", "bob")
    /\ WorkflowRequest("verify", "bob", 1, "EV-1", [flag |-> TRUE, expert |-> "eve"])
LedgerAssign ==
    /\ WorkflowBounded("assign-forensic", "bob")
    /\ WorkflowRequest("assign-forensic", "bob", 1, "EV-1", [flag |-> TRUE, expert |-> "eve"])
LedgerSubmit ==
    /\ WorkflowBounded("submit-analysis", "eve")
    /\ WorkflowRequest("submit-analysis", "eve", 1, "EV-1", [flag |-> TRUE, expert |-> "eve"])
LedgerClose ==
    /\ WorkflowBounded("close", "admin")
    /\ WorkflowRequest("close", "admin", 1, "EV-1", [flag |-> TRUE, expert |-> "eve"])
LedgerUpload ==
    /\ Len(auditLog) < MaxAudit
    /\ UploadEvidence("bob", TRUE, "CASE-A", "h1")
LedgerTick ==
    /\ now < MaxLedgerTime
    /\ now' = now + 1
    /\ UNCHANGED <<evidenceVars, enhancedVars, userVars, associatedCaseIds, otp, loginAttempts,
                   sessions, cases, auditLog, rateLimit, issuedJwts, nextToken, resp,
                   otpOrigin, failRun, granted>>

NextLedger ==
    \/ LedgerVerify
    \/ LedgerAssign
    \/ LedgerSubmit
    \/ LedgerClose
    \/ LedgerUpload
    \/ LedgerTick

SpecLedger == InitWorkflow /\ [][NextLedger]_vars

(* Custody of the records of routes/evidence.js, the router the server mounts *)
CustodyUpload ==
    /\ Len(auditLog) < MaxAudit
    /\ UploadEvidence("bob", TRUE, "CASE-A", "h1")
CustodyTransfer ==
    \E u \in {"bob", "eve", "admin"}, id \in {1, 2}, toUserId \in {"", "eve"} :
        /\ Len(auditLog) < MaxAudit
        /\ TransferEvidence(u, id, toUserId)
CustodyStatus ==
    \E u \in {"bob", "eve"}, id \in {1, 2}, status \in {"", "closed", "verified", "approved"} :
        /\ Len(auditLog) < MaxAudit
        /\ UpdateStatus(u, id, status)

NextCustody ==
    \/ CustodyUpload
    \/ CustodyTransfer
    \/ CustodyStatus

SpecCustody == Init /\ [][NextCustody]_vars

(* Case status: the admin closes, archives and reopens cases; operators log in *)
CaseStatusStep1 ==
    \E u \in {"bob", "admin"} : LoginStep1(u, TRUE, "CASE-A", "ip1", "111111")
CaseStatusStep2 ==
    /\ otp["admin"].code # ""
    /\ sessions["admin"] = << >>
    /\ LoginStep2("admin", otp["admin"].code, otpOrigin["admin"])
CaseStatusUpdate ==
    \E t \in Tokens, c \in {"CASE-A", NoCase},
       status \in {"active", "closed", "archived", "reopened"} :
        /\ c \in CaseIds => cases[c].timeline < MaxTimeline
        /\ UpdateCaseStatus(t, c, status)

NextCaseStatus ==
    \/ CaseStatusStep1
    \/ CaseStatusStep2
    \/ CaseStatusUpdate

SpecCaseStatus == InitGranted /\ [][NextCaseStatus]_vars


(* The order of login-step1's checks, from one address: bob calls          *)
(* login-step1 with right and wrong passwords, naming the case he holds,   *)
(* one he does not hold, one that does not exist, or none; eve, the admin  *)
(* and an unknown operator call it with the right password.                *)
OrderStep1 ==
    \/ \E ok \in BOOLEAN, c \in CaseIds \cup {NoCase, ""} :
           LoginStep1("bob", ok, c, "ip1", "111111")
    \/ \E u \in {"eve", "admin", "mallory"} :
           LoginStep1(u, TRUE, "CASE-B", "ip1", "111111")

NextOrder == OrderStep1

SpecOrder == InitOrder /\ [][NextOrder]_vars

(* Assignments: the admin signs in to CASE-A and sends assign-user         *)
(* requests for bob whose steps interleave.                                *)
AssignRaceStep1 ==
    /\ otp["admin"].code = ""
    /\ sessions["admin"] = << >>
    /\ LoginStep1("admin", TRUE, "CASE-A", "ip1", "111111")
AssignRaceStep2 ==
    /\ otp["admin"].code # ""
    /\ LoginStep2("admin", otp["admin"].code, otpOrigin["admin"])
AssignRaceBegin ==
    \E p \in Procs, t \in Tokens, c \in CaseIds \cup {NoCase}, lv \in {"", "write"} :
        AssignBegin(p, t, c, "bob", lv)
AssignRaceFinish == \E p \in Procs : AssignFinish(p)

NextAssignRace ==
    \/ AssignRaceStep1
    \/ AssignRaceStep2
    \/ AssignRaceBegin
    \/ AssignRaceFinish

SpecAssignRace == Init /\ [][NextAssignRace]_vars

(* The approval workflow with a notification service that delivers or      *)
(* fails: requests handled one at a time.                                  *)
NotifyVerify ==
    \E flag \in BOOLEAN, delivered \in BOOLEAN :
        /\ WorkflowBounded("verify", "bob")
        /\ WorkflowRequestNotified("verify", "bob", 1, "EV-1",
                                   [flag |-> flag, expert |-> "eve"], delivered)
NotifyApprove ==
    \E flag \in BOOLEAN, delivered \in BOOLEAN :
        /\ WorkflowBounded("approve", "admin")
        /\ WorkflowRequestNotified("approve", "admin", 1, "EV-1",
                                   [flag |-> flag, expert |-> "eve"], delivered)
NotifyAssign ==
    \E delivered \in BOOLEAN :
        /\ WorkflowBounded("assign-forensic", "bob")
        /\ WorkflowRequestNotified("assign-forensic", "bob", 1, "EV-1",
                                   [flag |-> TRUE, expert |-> "eve"], delivered)
NotifySubmit ==
    \E delivered \in BOOLEAN :
        /\ WorkflowBounded("submit-analysis", "eve")
        /\ WorkflowRequestNotified("submit-analysis", "eve", 1, "EV-1",
                                   [flag |-> TRUE, expert |-> "eve"], delivered)

NextNotify ==
    \/ NotifyVerify
    \/ NotifyApprove
    \/ NotifyAssign
    \/ NotifySubmit

SpecNotify == InitWorkflow /\ [][NextNotify]_vars

(* Failed logins in parallel: bob submits wrong passwords for CASE-A from  *)
(* two devices; the steps of the requests interleave.                      *)
AttemptBegin ==
    \E p \in Procs : Step1Begin(p, "bob", FALSE, "CASE-A", "ip1", "111111")
AttemptFinish == \E p \in Procs : Step1Finish(p)

NextAttemptRace ==
    \/ AttemptBegin
    \/ AttemptFinish

SpecAttemptRace == InitGranted /\ [][NextAttemptRace]_vars

(* Logins in parallel: bob asks for a code when none is pending and no     *)
(* request is under way, and submits it from two devices; the steps of     *)
(* the login-step2 requests interleave.                                    *)
CodeRaceStep1 ==
    /\ otp["bob"].code = ""
    /\ \A p \in Procs : inflight[p].pc = "idle"
    /\ nextToken <= MaxLogins
    /\ LoginStep1("bob", TRUE, "CASE-A", "ip1", "111111")
CodeRaceBegin ==
    \E p \in Procs, code \in OtpCodes : Step2Begin(p, "bob", code, "CASE-A")
CodeRaceReset == \E p \in Procs : Step2Reset(p)
CodeRaceFinish == \E p \in Procs : Step2Finish(p, MaxLogins + 1)

NextCodeRace ==
    \/ CodeRaceStep1
    \/ CodeRaceBegin
    \/ CodeRaceReset
    \/ CodeRaceFinish

SpecCodeRace == InitGranted /\ [][NextCodeRace]_vars
(* ------------------------------------------------------------------ *)
(* Properties                                                           *)
(* ------------------------------------------------------------------ *)
\* A case-scoped evidence request got past the middleware to its handler
Authorized(r) == r.op \in CaseScopedOps /\ r.stage = "handler"

(* C1: a token issued by login-step2 for case A never authorizes a        *)
(* case-scoped request (upload, list, download, hash) on another case B,  *)
(* even when the operator holds a grant on B.                             *)
C1_TokenBoundToCase ==
    Authorized(resp) => resp.tokenCase = resp.caseId

(* C3: for every non-admin operator, hasAccessToCase is true for exactly  *)
(* the case identifiers assign-user saved as grants of that operator,     *)
(* false for every other identifier, and the same for the grant list in   *)
(* the reverse order of insertion.                                        *)
Reverse(q) == [i \in 1..Len(q) |-> q[Len(q) + 1 - i]]

C3_AccessIffGranted ==
    \A u \in Users : role[u] # "admin" =>
        \A c \in CaseIds \cup {NoCase} :
            /\ hasAccessToCase(u, c) <=> (\E lv \in AccessLevelEnum : <<u, c, lv>> \in granted)
            /\ hasAccessToCaseDoc(role[u], Reverse(associatedCaseIds[u]), c) <=> hasAccessToCase(u, c)

C3_Witness ==
    /\ Len(associatedCaseIds["bob"]) = 2
    /\ associatedCaseIds["bob"][1].caseId = "CASE-B"
    /\ hasAccessToCase("bob", "CASE-A")
    /\ ~hasAccessToCase("bob", NoCase)
    /\ ~hasAccessToCase("eve", "CASE-A")

(* C4: requireCaseAccessLevel lets a request through iff the operator's   *)
(* access level on the case is at least the required level under          *)
(* none < read < write < admin (admin role: admin; else the granted       *)
(* level, or none), and otherwise answers 403 Forbidden.                  *)
LevelOrder(level) ==
    CASE level = "none" -> 0
      [] level = "read" -> 1
      [] level = "write" -> 2
      [] level = "admin" -> 3

GrantedLevel(u, c) ==
    IF role[u] = "admin" THEN "admin"
    ELSE IF \E lv \in AccessLevelEnum : <<u, c, lv>> \in granted
         THEN CHOOSE lv \in AccessLevelEnum : <<u, c, lv>> \in granted
         ELSE "none"

C4_RequireLevel ==
    \A u \in Users, c \in CaseIds \cup {NoCase}, lv \in AccessLevelEnum :
        LET r == requireCaseAccessLevel(u, c, lv) IN
        /\ (r.status = 0) <=> (LevelOrder(GrantedLevel(u, c)) >= LevelOrder(lv))
        /\ r.status \in {0, 403}

C4_Witness ==
    /\ resp.op = "upload"
    /\ resp.stage = "requireCaseAccessLevel"
    /\ resp.kind = "Insufficient permissions"
    /\ <<"bob", "CASE-A", "read">> \in granted
    /\ <<"bob", "CASE-B", "admin">> \in granted

(* C5: a non-admin operator without a grant on case C who asks to list,   *)
(* read or download evidence of C is answered 403 (no case access), gets  *)
(* no evidence data, and exactly one audit entry tagged as an             *)
(* unauthorized case access with that operator as actor is written.       *)
C5_DeniedAndAudited ==
    [][ (/\ resp'.op \in {"list", "download", "hash"}
         /\ resp'.stage # "authenticate"
         /\ resp'.caseId \in CaseIds
         /\ role[resp'.user] # "admin"
         /\ ~hasAccessToCase(resp'.user, resp'.caseId))
        => (/\ resp'.status = 403
            /\ ~resp'.data
            /\ Len(auditLog') = Len(auditLog) + 1
            /\ auditLog'[Len(auditLog')].action = "unauthorized_case_access_attempt"
            /\ auditLog'[Len(auditLog')].userId = resp'.user) ]_vars

(* C2: every session login-step2 issues to operator U for case C follows  *)
(* a successful login-step1 by U naming C from which the pending code     *)
(* stems, and no session is issued to an operator who is inactive, KYC    *)
(* unverified, locked or without access to C.                             *)
C2_SessionAfterStep1 ==
    [][ nextToken' # nextToken =>
          LET u == resp'.user
              c == resp'.caseId
          IN  /\ otpOrigin[u] = c
              /\ isActive[u]
              /\ kycVerified[u]
              /\ ~isLocked(loginAttempts[u], now)
              /\ CaseActive(c)
              /\ hasAccessToCase(u, c) ]_vars

(* C6 as stated: the account gets locked only by the 5th of a run of      *)
(* consecutive failed login-step1 submissions, that 5th locks it for 30   *)
(* minutes, and a submission made while locked is rejected as locked      *)
(* without incrementing the counter.                                      *)
C6_FiveConsecutiveFailures ==
    [][ \A u \in Users :
          LET la == loginAttempts[u]
              la2 == loginAttempts'[u]
          IN  /\ (~isLocked(la, now) /\ isLocked(la2, now')) => failRun'[u] >= LockThreshold
              /\ (failRun[u] = LockThreshold - 1 /\ failRun'[u] = LockThreshold)
                    => la2.lockedUntil = now + LockDuration
              /\ (isLocked(la, now) /\ rateLimit' # rateLimit /\ resp'.user = u)
                    => (resp'.status = 423 /\ la2 = la) ]_vars

(* C6 amended: the failed-login counter goes up by one on every           *)
(* login-step1 answered 401, 403 or 404 after the account checks and is   *)
(* not reset by a successful login-step1; the account gets locked only by *)
(* a submission that brings the counter to 5 or more, which locks it for  *)
(* 30 minutes whichever case was named; a submission made while locked is *)
(* answered 423 and leaves counter and lockout untouched.                 *)
C6_LockAfterFiveCounted ==
    [][ (rateLimit' # rateLimit /\ resp'.user \in Users) =>
          LET u == resp'.user
              la == loginAttempts[u]
              la2 == loginAttempts'[u]
          IN  /\ isLocked(la, now) => (resp'.status = 423 /\ la2 = la)
              /\ la2.count \in {la.count, la.count + 1}
              /\ (la2.count = la.count + 1) <=>
                    (/\ ~isLocked(la, now)
                     /\ resp'.kind \in {"Invalid credentials", "Case ID not found or inactive",
                                        "You do not have access to this case"})
              /\ la2.count = la.count + 1 =>
                    la2.lockedUntil = IF la2.count >= LockThreshold
                                      THEN now + LockDuration ELSE la.lockedUntil
              /\ la2.count = la.count => la2.lockedUntil = la.lockedUntil
              /\ (~isLocked(la, now) /\ isLocked(la2, now)) => la2.count >= LockThreshold ]_vars

C6_Witness ==
    /\ resp.op = "login-step1"
    /\ resp.status = 423
    /\ loginAttempts["bob"].count = LockThreshold
    /\ loginAttempts["bob"].lockedUntil = now + LockDuration
    /\ failRun["bob"] < LockThreshold

(* C7: the answer to the 5th consecutive failed login-step1 submission is *)
(* already the locked answer (423 Account locked), not the ordinary       *)
(* failure.                                                               *)
C7_FifthFailureSaysLocked ==
    [][ \A u \in Users :
          (failRun[u] = LockThreshold - 1 /\ failRun'[u] = LockThreshold)
            => (resp'.status = 423 /\ resp'.kind = "Account locked") ]_vars

(* C8 as stated: a pending code of the case-scoped login is accepted      *)
(* within five minutes of being generated and rejected as expired once    *)
(* more than five minutes have passed, whatever its attempt counter.      *)
C8_FiveMinuteWindow ==
    \A u \in Users : otp[u].code # "" =>
        LET o == otp[u] IN
        /\ (now <= o.lastSentAt + EnhancedOtpTtl /\ o.attempts < OtpMaxAttempts)
              => verifyOTP(o, o.code, now).success
        /\ now > o.lastSentAt + EnhancedOtpTtl
              => \A code \in OtpCodes : verifyOTP(o, code, now).message = "OTP expired"

(* C8 amended: in the case-scoped login a code generated at T is accepted *)
(* when submitted correctly up to T+10min (so also at T+5min01s) as long  *)
(* as fewer than 3 wrong codes were submitted, and is rejected as expired *)
(* after T+10min whatever the attempt counter; the five-minute window     *)
(* (accepted up to T+5min, expired after it whatever the counter) is that *)
(* of the enhanced login's verifyOTP.                                     *)
C8_TenMinuteWindow ==
    /\ \A u \in Users : otp[u].code # "" =>
          LET o == otp[u] IN
          /\ (now <= o.lastSentAt + OtpTtl /\ o.attempts < OtpMaxAttempts)
                => verifyOTP(o, o.code, now).success
          /\ now > o.lastSentAt + OtpTtl
                => \A code \in OtpCodes : verifyOTP(o, code, now).message = "OTP expired"
    /\ \A k \in DOMAIN otpStore : otpStore[k].present =>
          LET d == otpStore[k]
              a == userEnhanced[d.userId].otpAttempts
          IN
          /\ (now <= d.sentAt + EnhancedOtpTtl /\ a < EnhancedOtpMaxAttempts)
                => verifyOTPEnhanced(a, d.otp, d.otp, d.sentAt, now).valid
          /\ now > d.sentAt + EnhancedOtpTtl
                => \A code \in OtpCodes :
                      verifyOTPEnhanced(a, code, d.otp, d.sentAt, now).reason = "OTP expired"

\* bob's session was created 5min01s after the login-step1 that issued his code
C8_Witness ==
    /\ resp.op = "login-step2"
    /\ resp.status = 200
    /\ Len(rateLimit["ip1"]) = 1
    /\ Len(sessions["bob"]) = 1
    /\ sessions["bob"][1].expiresAt = rateLimit["ip1"][1] + EnhancedOtpTtl + 1 + SessionTtl

(* C9: against a pending code a failed login-step2 says expired, too many *)
(* attempts or invalid code as the case may be, and every failed          *)
(* submission increments the attempt counter and writes an audit entry.   *)
C9_FailuresCountedAndAudited ==
    [][ (/\ now' = now
         /\ resp'.op = "login-step2"
         /\ resp'.status = 401
         /\ resp'.user \in Users
         /\ otp[resp'.user].code # "")
        => LET u == resp'.user
               o == otp[u]
           IN  /\ resp'.kind = IF o.expiresAt < now THEN "OTP expired"
                                ELSE IF o.attempts >= OtpMaxAttempts THEN "Too many attempts"
                                ELSE "Invalid OTP"
               /\ otp'[u].attempts = o.attempts + 1
               /\ Len(auditLog') = Len(auditLog) + 1 ]_vars

(* C10: a login-step2 that issues a session found a pending code,        *)
(* clears the one-time-code record and resets the failed-login counter   *)
(* and the lockout; a login-step2 made when no code is pending (as after *)
(* a successful one) is answered 401 and issues no session.              *)
C10_MatchClearsAndResets ==
    [][ /\ nextToken' # nextToken =>
              LET u == resp'.user IN
              /\ resp'.op = "login-step2"
              /\ resp'.status = 200
              /\ otp[u].code # ""
              /\ otp'[u] = NoOtp
              /\ loginAttempts'[u] = [count |-> 0, lockedUntil |-> NoDate]
              /\ Len(sessions'[u]) > 0
        /\ (/\ now' = now
            /\ resp'.op = "login-step2"
            /\ resp'.user \in Users
            /\ otp[resp'.user].code = "")
           => (/\ resp'.status = 401
               /\ nextToken' = nextToken
               /\ sessions' = sessions) ]_vars

C10_Witness ==
    /\ resp.op = "login-step2"
    /\ resp.kind = "No OTP generated"
    /\ Len(sessions["bob"]) = 1
    /\ otp["bob"] = NoOtp
    /\ loginAttempts["bob"] = [count |-> 0, lockedUntil |-> NoDate]
    /\ Len(rateLimit["ip1"]) > LockThreshold

(* C11: a case-scoped request is authorized only while the session the  *)
(* presented credential was issued with is live: the operator of an      *)
(* authorized request holds a stored session for the token's case that   *)
(* is marked active and not past its expiry.                             *)
LiveSession(u, caseId) ==
    \E i \in DOMAIN sessions[u] :
        /\ sessions[u][i].caseId = caseId
        /\ sessions[u][i].isActive
        /\ validateSession(sessions[u], sessions[u][i].token, now).status = 0

C11_AuthorizedOnlyWhileLive ==
    Authorized(resp) => LiveSession(resp.user, resp.tokenCase)

(* C12 as stated: after any sequence of successful logins an operator's  *)
(* stored session list holds at most 5 sessions, in the case-scoped store *)
(* and in the enhanced store.                                             *)
C12_AtMostFiveSessions ==
    \A u \in Users :
        /\ Len(sessions[u]) <= MaxSessions
        /\ Len(userEnhanced[u].sessions) <= MaxSessions


(* C13: resendOtp answers "wait" and leaves the stored code unchanged   *)
(* when the operator's last code was sent less than 60 seconds ago;      *)
(* otherwise it stores a fresh code and writes one audit entry for the   *)
(* resend.                                                               *)
C13_ResendCooldownAndAudit ==
    [][ (/\ now' = now
         /\ resp'.op = "resend-otp"
         /\ resp'.user \in Users)
        => LET u == resp'.user
           IN  IF otp[u].lastSentAt # NoDate /\ now - otp[u].lastSentAt < ResendCooldown
               THEN /\ resp'.status = 429
                    /\ otp' = otp
                    /\ auditLog' = auditLog
               ELSE /\ resp'.status = 200
                    /\ otp'[u].code # ""
                    /\ otp'[u].lastSentAt = now
                    /\ Len(auditLog') = Len(auditLog) + 1 ]_vars


\* the roles in a visibility list
RolesIn(visibleTo) == {visibleTo[i] : i \in DOMAIN visibleTo}

\* a step in which the handler of the given workflow route ran on a stored item
Handled(op) ==
    /\ resp'.op = op
    /\ resp'.caseId \in EvidenceIds
    /\ resp'.status \notin {401, 403, 404}
    /\ <<resp, evidenceEnhanced, auditLog, userEnhanced>>' # <<resp, evidenceEnhanced, auditLog, userEnhanced>>

AuditEntries(action, e) ==
    {i \in DOMAIN auditLog : auditLog[i].action = action /\ auditLog[i].evidenceId = e}

C16_TerminalStatuses ==
    [][ \A e \in EvidenceIds :
          evidenceEnhanced[e].status \in {"rejected", "closed", "court_submitted"}
             => /\ evidenceEnhanced'[e].status = evidenceEnhanced[e].status
                /\ (Handled("close") /\ resp'.caseId = e)
                      => /\ resp'.status = 400
                         /\ evidenceEnhanced' = evidenceEnhanced ]_vars

(* C17: once visibleTo of an item contains a role, every later state's    *)
(* visibleTo contains it: no operation removes a role.                    *)
C17_VisibilityOnlyGrows ==
    [][ \A e \in EvidenceIds :
          RolesIn(evidenceEnhanced[e].visibleTo) \subseteq RolesIn(evidenceEnhanced'[e].visibleTo)
      ]_vars

C17_Witness ==
    /\ evidenceEnhanced["EV-1"].status = "closed"
    /\ RolesIn(evidenceEnhanced["EV-1"].visibleTo) = {"police", "court_official", "forensic_expert"}
    /\ resp.op = "close"


\* the status a transition expects to find
ExpectedStatus(op) == IF op = "verify" THEN "uploaded" ELSE "pending_approval"

(* C18: of two verify calls, or two approve calls, on the same item, of   *)
(* which at least one found the item in the expected starting status,     *)
(* exactly one is answered with the InvalidState failure (400) once both  *)
(* have been answered: never two successes and never zero.                *)
C18_ExactlyOneSucceeds ==
    (/\ \A p \in Procs : inflight[p].pc = "done"
     /\ inflight["p1"].op = inflight["p2"].op
     /\ inflight["p1"].evidenceId = inflight["p2"].evidenceId
     /\ \E p \in Procs : inflight[p].snap.status = ExpectedStatus(inflight[p].op))
    => Cardinality({p \in Procs : inflight[p].status = 400}) = 1


(* C19: an upload whose content hash equals that of an evidence item      *)
(* already taken in, under the same or another case, is refused: no two   *)
(* records of the Evidence collection share a hash, and no two files      *)
(* taken in and counted by the case-scoped upload share a hash.           *)
C19_DuplicateRejected ==
    /\ \A i, j \in DOMAIN evidenceDocs :
          i # j => evidenceDocs[i].hash # evidenceDocs[j].hash
    /\ \A i, j \in DOMAIN uploads :
          i # j => uploads[i].fileHash # uploads[j].fileHash


(* C20: every authorization denial of a case-scoped request, for missing  *)
(* case access or for an insufficient access level, appends an audit      *)
(* entry tagged as an unauthorized-access attempt by that operator, in    *)
(* the step that answers with the error.                                  *)
C20_DenialsAudited ==
    [][ (/\ resp'.op \in CaseScopedOps
         /\ \/ resp'.stage = "verifyCaseAccess" /\ resp'.status \notin {400, 404}
            \/ resp'.stage = "requireCaseAccessLevel" /\ resp'.status = 403)
        => /\ Len(auditLog') = Len(auditLog) + 1
           /\ auditLog'[Len(auditLog')].action \in
                 {"unauthorized_case_access_attempt", "unauthorized_role_access"}
           /\ auditLog'[Len(auditLog')].userId = resp'.user ]_vars


(* C21: every authentication step (login-step1, login-step2, resend-otp,  *)
(* logout), whatever its outcome, appends exactly one audit entry in the  *)
(* step that answers.                                                     *)
C21_OneEntryPerAuthStep ==
    [][ (/\ now' = now
         /\ resp'.op \in {"login-step1", "login-step2", "resend-otp", "logout"})
        => /\ Len(auditLog') = Len(auditLog) + 1
           /\ SubSeq(auditLog', 1, Len(auditLog)) = auditLog ]_vars


(* C22: the audit ledger is append-only: every step leaves the entries     *)
(* recorded so far in place and unchanged; timestamps never decrease along *)
(* the ledger; and the per-evidence report lists an item's entries in the  *)
(* order they were recorded.                                              *)
C22_AppendOnlyLedger ==
    /\ [][ /\ Len(auditLog') >= Len(auditLog)
           /\ SubSeq(auditLog', 1, Len(auditLog)) = auditLog ]_vars
    /\ [](\A i, j \in DOMAIN auditLog :
             i < j => auditLog[i].timestamp <= auditLog[j].timestamp)
    /\ [](\A e \in EvidenceIds \cup FileHashes : auditReport(e) = AuditFind(e))

C22_Witness ==
    /\ Len(auditLog) = MaxAudit
    /\ auditLog[1].timestamp < auditLog[2].timestamp
    /\ auditLog[2].timestamp < auditLog[MaxAudit].timestamp
    /\ Len(auditReport("EV-1")) >= 2
    /\ \E i \in DOMAIN auditLog : auditLog[i].action = "upload"


(* C23: the status of an evidence record changes only in a workflow        *)
(* transition invoked by an operator holding the role the transition       *)
(* requires: no direct status update and no ownership transfer sets it.    *)
C23_StatusOnlyByTransition ==
    [][ \A id \in DOMAIN evidenceDocs :
          evidenceDocs'[id].status # evidenceDocs[id].status
             => /\ resp'.op \in WorkflowOps
                /\ role[resp'.user] = RouteRole(resp'.op) ]_vars


(* C24: in every reachable state a case whose status is closed or archived *)
(* is inactive, and a login-step1 naming such a case fails and stores no   *)
(* one-time code, whoever the operator is.                                 *)
C24_ClosedCaseRefusesLogin ==
    /\ [](\A c \in CaseIds : cases[c].status \in {"closed", "archived"} => ~cases[c].isActive)
    /\ [][ (/\ resp'.op = "login-step1"
            /\ resp'.caseId \in CaseIds
            /\ cases[resp'.caseId].status \in {"closed", "archived"})
           => /\ resp'.status # 200
              /\ otp' = otp ]_vars

C24_Witness ==
    /\ resp.op = "login-step1"
    /\ resp.user = "admin"
    /\ resp.status = 404
    /\ resp.caseId \in CaseIds
    /\ cases[resp.caseId].status = "archived"
    /\ otp["admin"].code = ""


(* C25: a denial does not reveal whether the case exists: for an operator  *)
(* without access to an existing active case, verifyCaseAccess answers a   *)
(* request naming that case with the same status and message as a request  *)
(* naming a case that does not exist.                                      *)
C25_DenialHidesExistence ==
    \A u \in Users, c \in CaseIds :
        (CaseActive(c) /\ ~hasAccessToCase(u, c))
           => LET inaccessible == verifyCaseAccess(u, c, auditLog)
                  nonexistent == verifyCaseAccess(u, NoCase, auditLog)
              IN  /\ inaccessible.status = nonexistent.status
                  /\ inaccessible.kind = nonexistent.kind


(* C26: an upload is answered with success only for an operator with an   *)
(* uploader role and at least write access on an active case, and then an *)
(* evidence record with status uploaded exists for the case and the       *)
(* case's evidence count and timeline have each grown by exactly one; an  *)
(* upload answered with an error leaves the cases and the evidence        *)
(* records unchanged.                                                     *)
C26_UploadAllOrNothing ==
    [][ resp'.op \in {"upload", "evidence-upload"}
        => LET u == resp'.user
               c == resp'.caseId
           IN  IF resp'.status = 201
               THEN /\ c \in CaseIds
                    /\ CaseActive(c)
                    /\ role[u] \in {"citizen", "police", "forensic"}
                    /\ getCaseAccessLevel(u, c) \in {"write", "admin"}
                    /\ \E i \in DOMAIN evidenceDocs' :
                          /\ evidenceDocs'[i].caseNumber = c
                          /\ evidenceDocs'[i].status = "uploaded"
                    /\ cases'[c].evidenceCount = cases[c].evidenceCount + 1
                    /\ cases'[c].timeline = cases[c].timeline + 1
                    /\ \A d \in CaseIds \ {c} : cases'[d] = cases[d]
               ELSE /\ cases' = cases
                    /\ evidenceDocs' = evidenceDocs ]_vars


C28_CounterFrame ==
    [][ resp'.op = "login-step1"
        => LET u == resp'.user
               s == resp'.status
               counted == /\ u \in Users
                          /\ \/ s = 401
                             \/ s = 404
                             \/ s = 403 /\ resp'.kind = "You do not have access to this case"
           IN  IF counted
               THEN /\ loginAttempts'[u].count = loginAttempts[u].count + 1
                    /\ \A v \in Users \ {u} : loginAttempts'[v] = loginAttempts[v]
               ELSE loginAttempts' = loginAttempts ]_vars

\* bob named a case he holds no grant for: his first counted failure
C28_Witness ==
    /\ resp.op = "login-step1" /\ resp.user = "bob" /\ resp.caseId = "CASE-B"
    /\ resp.status = 403 /\ resp.kind = "You do not have access to this case"
    /\ loginAttempts["bob"] = [count |-> 1, lockedUntil |-> NoDate]


(* C29: a transition invoked again after it was applied (assign-forensic   *)
(* on an item already assigned to that expert, submit-analysis on an item  *)
(* whose analysis is completed, close on a closed item) is answered 400    *)
(* and changes neither the item nor the audit log; and visibleTo never     *)
(* holds a role twice.                                                     *)
C29_RepeatIsRefused ==
    /\ [](\A e \in EvidenceIds :
            LET v == evidenceEnhanced[e].visibleTo
            IN  \A i, j \in DOMAIN v : i # j => v[i] # v[j])
    /\ [][ \A e \in EvidenceIds :
             LET d == evidenceEnhanced[e]
                 n == evidenceEnhanced'[e]
                 repeated ==
                     \/ /\ Handled("assign-forensic")
                        /\ d.assignedTo # "" /\ n.assignedTo = d.assignedTo
                     \/ Handled("submit-analysis") /\ d.analysisStatus = "completed"
                     \/ Handled("close") /\ d.status = "closed"
             IN  (resp'.caseId = e /\ repeated)
                    => /\ resp'.status = 400
                       /\ evidenceEnhanced' = evidenceEnhanced
                       /\ auditLog' = auditLog ]_vars


(* C30: a workflow transition is applied together with its audit entry:    *)
(* every request that changes the status or the visibility of an item      *)
(* appends, before it answers, one audit entry for that item by the        *)
(* operator who made the request.                                          *)
C30_TransitionWithAudit ==
    [][ \A e \in EvidenceIds :
          (\/ evidenceEnhanced'[e].status # evidenceEnhanced[e].status
           \/ evidenceEnhanced'[e].visibleTo # evidenceEnhanced[e].visibleTo)
             => /\ Len(auditLog') = Len(auditLog) + 1
                /\ auditLog'[Len(auditLog')].evidenceId = e
                /\ auditLog'[Len(auditLog')].performedBy = resp'.user ]_vars


(* C40: after any sequence of status updates a case is active, that is it  *)
(* accepts logins and case-scoped requests, exactly when its status is     *)
(* active or pending; a closed or archived case set back to active is      *)
(* active again.                                                           *)
C40_ActiveIffStatus ==
    \A c \in CaseIds : cases[c].isActive <=> cases[c].status \in {"active", "pending"}


(* C37: a set lockout time implies a failed-login counter of at least 5;   *)
(* the counter goes down only in a successful login-step2 of that          *)
(* operator and is not touched by the passing of time; and a counted       *)
(* failure after a lockout has run out locks the account again at once.    *)
C37_LockoutKeepsCounter ==
    /\ [](\A u \in Users :
            loginAttempts[u].lockedUntil # NoDate => loginAttempts[u].count >= LockThreshold)
    /\ [][ \A u \in Users :
             LET la == loginAttempts[u]
                 la2 == loginAttempts'[u]
             IN  /\ la2.count < la.count
                       => /\ resp'.op = "login-step2" /\ resp'.status = 200
                          /\ resp'.user = u
                          /\ la2 = [count |-> 0, lockedUntil |-> NoDate]
                 /\ now' # now => la2 = la
                 /\ (/\ la.lockedUntil # NoDate /\ ~(la.lockedUntil > now)
                     /\ la2.count = la.count + 1)
                       => /\ la2.lockedUntil = now + LockDuration
                          /\ la2.lockedUntil > now' ]_vars

\* bob is locked again by the first counted failure after his lockout ran out
C37_Witness ==
    /\ resp.op = "login-step1" /\ resp.user = "bob" /\ resp.status \in {401, 403, 404}
    /\ now >= LockDuration
    /\ loginAttempts["bob"] = [count |-> LockThreshold + 1, lockedUntil |-> now + LockDuration]


(* C35: an approved item was moved to pending_approval by an accepting     *)
(* verify of a police operator: it carries its verifier and verification   *)
(* time and its approver is an admin; in every execution, interleaved      *)
(* requests included, an item becomes approved from pending_approval only  *)
(* (never directly from uploaded or rejected) and becomes                  *)
(* pending_approval with a police verifier recorded.                       *)
C35_ApprovedWasVerified ==
    /\ [](\A e \in EvidenceIds :
            LET d == evidenceEnhanced[e] IN
            d.status = "approved"
               => /\ d.verifiedBy \in Users
                  /\ userEnhanced[d.verifiedBy].role = "police"
                  /\ d.verifiedAt # NoDate
                  /\ d.approvedBy \in Users
                  /\ userEnhanced[d.approvedBy].role = "admin")
    /\ [][ \A e \in EvidenceIds :
             LET d == evidenceEnhanced[e]
                 n == evidenceEnhanced'[e]
             IN  /\ (n.status = "approved" /\ d.status # "approved")
                       => d.status = "pending_approval"
                 /\ (n.status = "pending_approval" /\ d.status # "pending_approval")
                       => /\ n.verifiedBy \in Users
                          /\ userEnhanced[n.verifiedBy].role = "police"
                          /\ n.verifiedAt # NoDate ]_vars



(* C36: every audit record an operation hands to the ledger is accepted:   *)
(* the records of approve and reject, of the login steps, of a denial and  *)
(* of a case status update carry an action of the ledger's vocabulary and  *)
(* its mandatory fields, and a workflow request that has changed an item   *)
(* is answered with success after its audit entry was appended.            *)
C36_AuditWritesAccepted ==
    /\ [](\A u \in Users, c \in CaseIds, e \in EvidenceIds :
            /\ AuditValid(WorkflowAudit("approve", e, u))
            /\ AuditValid(WorkflowAudit("reject", e, u))
            /\ AuditValid(AuditDoc("login_step1_success", Missing, Missing, u, c))
            /\ AuditValid(AuditDoc("login_failed", Missing, Missing, u, c))
            /\ AuditValid(AuditDoc("unauthorized_case_access", Missing, Missing, u, c))
            /\ AuditValid(AuditDoc("case_status_updated", Missing, Missing, u, c)))
    /\ [][ (resp'.op \in WorkflowOps /\ evidenceEnhanced' # evidenceEnhanced)
             => /\ resp'.status = 200
                /\ Len(auditLog') = Len(auditLog) + 1 ]_vars


(* C39: after any sequence or interleaving of assign-user requests an      *)
(* operator holds at most one grant per case; an assignment of an          *)
(* operator who already holds a grant for the case is refused (400, or    *)
(* 401/403 by the middleware) and leaves the operator's grants and the     *)
(* cases unchanged.                                                        *)
C39_OneGrantPerCase ==
    /\ [](\A u \in Users :
            \A i, j \in DOMAIN associatedCaseIds[u] :
                i # j => associatedCaseIds[u][i].caseId # associatedCaseIds[u][j].caseId)
    /\ [][ (/\ resp' # resp
            /\ resp'.op = "assign-user"
            /\ resp'.user \in Users
            /\ SomeGrant(associatedCaseIds[resp'.user], resp'.caseId))
           => /\ resp'.status \in {400, 401, 403}
              /\ associatedCaseIds' = associatedCaseIds
              /\ cases' = cases ]_vars


(* C34: a case's evidence count never decreases and counts the uploads to  *)
(* the case that were reported successful: it grows by one in a            *)
(* case-scoped upload answered 201 and is unchanged by every other step,   *)
(* an upload that is rejected or fails included.                           *)
C34_CountMatchesSuccesses ==
    [][ \A c \in CaseIds :
          LET counted == /\ resp' # resp
                         /\ resp'.op = "upload"
                         /\ resp'.caseId = c
                         /\ resp'.status = 201
          IN  cases'[c].evidenceCount =
                  cases[c].evidenceCount + (IF counted THEN 1 ELSE 0) ]_vars


(* C31: a failing notification does not fail the operation around it: a    *)
(* verify request that passes the role check and finds the item uploaded   *)
(* or pending_verification is applied; an assign-forensic or               *)
(* submit-analysis request that has changed the item has appended its      *)
(* audit entry and is answered with success.                               *)
C31_CollaboratorFailureTolerated ==
    [][ \A e \in EvidenceIds :
          LET d == evidenceEnhanced[e]
              n == evidenceEnhanced'[e]
          IN  /\ (/\ Handled("verify") /\ resp'.caseId = e
                  /\ d.status \in {"uploaded", "pending_verification"})
                    => n.status \in {"pending_approval", "rejected"}
              /\ (/\ resp'.op \in {"assign-forensic", "submit-analysis"}
                  /\ resp'.caseId = e
                  /\ n # d)
                    => /\ resp'.status = 200
                       /\ Len(auditLog') = Len(auditLog) + 1 ]_vars


(* C32: failed-login counting loses no increment under concurrency: once   *)
(* every request has been answered, the counter equals the number of       *)
(* counted failures answered, and after 5 of them the account has been     *)
(* locked.                                                                 *)
C32_NoLostIncrement ==
    (\A p \in Procs : inflight[p].pc = "idle")
       => \A u \in Users :
            /\ loginAttempts[u].count = failRun[u]
            /\ failRun[u] >= LockThreshold => loginAttempts[u].lockedUntil # NoDate


(* C38: one issued code yields at most one session, also when it is        *)
(* submitted twice at the same time: the number of sessions created never  *)
(* exceeds the number of codes issued (each login-step1 of the             *)
(* specification issues one and is recorded in the rate-limit window).     *)
C38_OneSessionPerCode ==
    nextToken - 1 <= Len(rateLimit["ip1"])

(* C33: every login-step2 that is answered with a session has appended     *)
(* that session, active, to the stored list and has removed from it at     *)
(* most the oldest sessions beyond the cap of 5, whatever other logins     *)
(* wrote in between; no other step changes the session lists.              *)
C33_SessionsSurviveConcurrentLogins ==
    [][ /\ nextToken' # nextToken
           => LET u == resp'.user
                  new == sessions'[u]
                  all == Append(sessions[u], new[Len(new)])
              IN  /\ resp'.op = "login-step2" /\ resp'.status = 200
                  /\ Len(new) > 0
                  /\ new[Len(new)].token = nextToken
                  /\ new[Len(new)].isActive
                  /\ \E j \in 1..Len(all) :
                        /\ new = SubSeq(all, j, Len(all))
                        /\ Len(all) <= MaxSessions => j = 1
                  /\ \A v \in Users \ {u} : sessions'[v] = sessions[v]
        /\ sessions' # sessions => nextToken' # nextToken ]_vars

\* two logins of bob that overlapped while four sessions were stored: both sessions
\* are in the list
C33_Witness ==
    /\ Len(sessions["bob"]) = MaxSessions + 1
    /\ resp.op = "login-step2" /\ resp.status = 200
    /\ \A i \in DOMAIN sessions["bob"] : sessions["bob"][i].isActive

====
